---------------------------- MODULE Spec2Model ----------------------------
(***************************************************************************)
(* Collaborative canvas: the socket.io server (its per-connection          *)
(* handlers, the RoomManager and each room's DrawingState) and the client  *)
(* side operation list kept by CanvasManager.                              *)
(***************************************************************************)
EXTENDS Integers, Sequences, FiniteSets, TLC

(***************************************************************************)
(* Bounds of the model.                                                    *)
(***************************************************************************)
\* connections the server accepts (socket ids 1..NSockets)
NSockets == 3
\* users created by join-room over a run (uuidv4 values 1..MaxUsers)
MaxUsers == 3
\* operation ids issued by drawing-event over a run (uuidv4 values 1..MaxOps)
MaxOps == 4
\* drawing events handled in a run of the session specification Spec
MaxSessionOps == 1

Sockets == 1..NSockets
RoomIds == {"r1", "r2"}
UserIds == 1..MaxUsers
OpIds == 1..MaxOps

\* JavaScript null / undefined for ids, coordinates and sizes
Null == 0

\* rooms.js colorPalette has ten entries, named here by their position
PaletteSize == 10
colorPalette == [i \in 1..PaletteSize |-> i]

(***************************************************************************)
(* Event payloads.  A drawing-event is {type, data}; `data` is an object   *)
(* or is missing.  Fields the handlers and the client read are kept, a     *)
(* field that is absent in the JavaScript object holds Null / FALSE / "".  *)
(***************************************************************************)
DurableTypes == {"draw", "shape", "text", "image"}
PreviewTypes == {"shape-preview", "text-preview", "move-preview"}
Types == DurableTypes \cup PreviewTypes \cup {"draw-incremental", "move", "resize", "clear"}

Data(isComplete, operationId, x, y, width, height, tempId, phase) ==
    [present |-> TRUE, isComplete |-> isComplete, operationId |-> operationId,
     x |-> x, y |-> y, width |-> width, height |-> height,
     tempId |-> tempId, phase |-> phase]

\* a drawing-event whose data field is missing
NoData ==
    [present |-> FALSE, isComplete |-> FALSE, operationId |-> Null,
     x |-> Null, y |-> Null, width |-> Null, height |-> Null,
     tempId |-> Null, phase |-> ""]

VARIABLES
    rooms,      \* roomManager.rooms: room id -> room (exists = FALSE: no entry)
    users,      \* the user objects created by addUser, by user id
    sock,       \* per connection: connected, currentUser, currentRoom, socket.io rooms joined
    nextSock,   \* next socket id
    nextUser,   \* next user uuid
    nextOp,     \* next operation uuid
    inbox,      \* per connection: events emitted to it and not yet handled by its client
    client,     \* per connection: the client's CanvasManager / WebSocketClient state
    emitted,    \* history: the drawing-update, undo-update, redo-update and
                \* canvas-cleared events the server emitted, in order, each with the
                \* connections it addressed
    received    \* history, per connection: those events in the order its client got them

serverVars == <<rooms, users, sock, nextSock, nextUser, nextOp>>
clientVars == <<inbox, client, emitted, received>>
vars == <<rooms, users, sock, nextSock, nextUser, nextOp, inbox, client, emitted, received>>

(***************************************************************************)
(* DrawingState (src/server/drawing-state.js)                              *)
(***************************************************************************)
NoRoom ==
    [exists |-> FALSE, users |-> <<>>, adminId |-> Null,
     operations |-> <<>>, currentIndex |-> -1]

\* getRoom creates: {id, users: new Map(), drawingState: new DrawingState, adminId: null}
NewRoom ==
    [exists |-> TRUE, users |-> <<>>, adminId |-> Null,
     operations |-> <<>>, currentIndex |-> -1]

NoUser == [id |-> Null, color |-> Null, socketId |-> Null, isAdmin |-> FALSE]

\* a connection not yet made, or closed: its listeners do not run, its closure is dropped
ClosedSocket == [connected |-> FALSE, currentUser |-> Null, currentRoom |-> "", joined |-> {}]

SeqRange(q) == {q[i] : i \in 1..Len(q)}

\* Array.prototype.slice(0, n)
SliceTo(q, n) == IF n <= 0 THEN <<>> ELSE SubSeq(q, 1, IF n < Len(q) THEN n ELSE Len(q))

\* addOperation that puts the new entry in front of the others
addOperationInFront(ds, operation) ==
    [ds EXCEPT !.operations = <<[operation EXCEPT !.undone = FALSE]>>
                                \o SliceTo(ds.operations, ds.currentIndex + 1),
               !.currentIndex = ds.currentIndex + 1]

\* addOperation: slice(0, currentIndex + 1), push {...operation, undone: false}, currentIndex++
addOperation(ds, operation) ==
    [ds EXCEPT !.operations = Append(SliceTo(ds.operations, ds.currentIndex + 1),
                                     [operation EXCEPT !.undone = FALSE]),
               !.currentIndex = ds.currentIndex + 1]

\* the highest / lowest member of a set of indexes, 0 when the loop runs out
MaxIndex(hits) == IF hits = {} THEN 0 ELSE CHOOSE i \in hits : \A j \in hits : j <= i

MinIndex(hits) == IF hits = {} THEN 0 ELSE CHOOSE i \in hits : \A j \in hits : i <= j

\* undo scanning from the start of the log instead of from its end
undoIndexFromStart(ops, userId) ==
    MinIndex({i \in 1..Len(ops) : ops[i].userId = userId /\ ~ops[i].undone})

\* undo(userId): for i = length-1 down to 0, first entry with userId and !undone
undoIndex(ops, userId) ==
    MaxIndex({i \in 1..Len(ops) : ops[i].userId = userId /\ ~ops[i].undone})

\* redo scanning from the end of the log: a stack-like redo
redoIndexFromEnd(ops, userId) ==
    MaxIndex({i \in 1..Len(ops) : ops[i].userId = userId /\ ops[i].undone})

\* redo(userId): for i = 0 up, first entry with userId and undone
redoIndex(ops, userId) ==
    MinIndex({i \in 1..Len(ops) : ops[i].userId = userId /\ ops[i].undone})

\* global undo scanning from the start of the log instead of from its end
globalUndoIndexFromStart(ops) ==
    MinIndex({i \in 1..Len(ops) : ~ops[i].undone})

\* globalUndo(): for i = length-1 down to 0, first entry with !undone
globalUndoIndex(ops) ==
    MaxIndex({i \in 1..Len(ops) : ~ops[i].undone})

\* globalRedo scanning from the end of the log: a stack-like redo
globalRedoIndexFromEnd(ops) ==
    MaxIndex({i \in 1..Len(ops) : ops[i].undone})

\* globalRedo(): for i = 0 up, first entry with undone
globalRedoIndex(ops) ==
    MinIndex({i \in 1..Len(ops) : ops[i].undone})

\* a flag change that also forgets the colour of the entry's author
SetUndoneForgetColor(ops, i, flag) ==
    [ops EXCEPT ![i].undone = flag, ![i].userColor = Null]

\* operation.undone = flag, on entry i of the log
SetUndone(ops, i, flag) == [ops EXCEPT ![i].undone = flag]

\* a clear that flags every entry as undone and keeps the log
clearByFlag(ds) ==
    [ds EXCEPT !.operations = [i \in 1..Len(ds.operations) |->
                                  [ds.operations[i] EXCEPT !.undone = TRUE]]]

\* clear(): operations = [], currentIndex = -1
clear(ds) == [ds EXCEPT !.operations = <<>>, !.currentIndex = -1]

\* getActiveOperations(): operations.slice(0, currentIndex + 1).filter(op => !op.undone)
getActiveOperations(ds) ==
    SelectSeq(SliceTo(ds.operations, ds.currentIndex + 1), LAMBDA op : ~op.undone)

\* getOperationHistory(): {operations, currentIndex, referenceSize}
getOperationHistory(ds) == [operations |-> ds.operations, currentIndex |-> ds.currentIndex]


(***************************************************************************)
(* RoomManager (src/server/rooms.js)                                       *)
(***************************************************************************)
\* getRoom(roomId): the room, created when the registry has no entry
getRoom(rms, roomId) ==
    IF rms[roomId].exists THEN rms ELSE [rms EXCEPT ![roomId] = NewRoom]

\* a colour assignment that takes the last unused colour of the palette
assignColorLastFree(room, us) ==
    LET usedColors == {us[room.users[i]].color : i \in 1..Len(room.users)}
        free == {i \in 1..PaletteSize : colorPalette[i] \notin usedColors}
    IN  IF free # {} THEN {colorPalette[MaxIndex(free)]}
        ELSE {colorPalette[i] : i \in 1..PaletteSize}

\* a colour assignment that never looks at the colours held: usedColors stays empty
\* and the loop returns the first colour of the palette
assignColorFirst(room, us) == {colorPalette[1]}

\* assignColor(room): first palette colour no user of the room holds; when all
\* are held, colorPalette[Math.floor(Math.random() * 10)]: any of them
assignColor(room, us) ==
    LET usedColors == {us[room.users[i]].color : i \in 1..Len(room.users)}
        free == {i \in 1..PaletteSize : colorPalette[i] \notin usedColors}
    IN  IF free # {} THEN {colorPalette[MinIndex(free)]}
        ELSE {colorPalette[i] : i \in 1..PaletteSize}

\* addUser(roomId, userId, userName, socketId) with the colour assignColor returned
addUser(rms, us, roomId, userId, socketId, color) ==
    LET rms1 == getRoom(rms, roomId)
        room == rms1[roomId]
        isAdmin == Len(room.users) = 0
        user == [id |-> userId, color |-> color, socketId |-> socketId, isAdmin |-> isAdmin]
    IN  [rooms |-> [rms1 EXCEPT ![roomId].users = Append(room.users, userId),
                                ![roomId].adminId = IF isAdmin THEN userId ELSE room.adminId],
         users |-> [us EXCEPT ![userId] = user]]

\* Map.delete(userId) on the insertion-ordered users map (`users` holds the user
\* objects that some room's map holds: a deleted entry's object is dropped)
MapDelete(q, userId) == SelectSeq(q, LAMBDA u : u # userId)

\* removeUser without the hand-over of lines 69-73: the admin leaves, nobody follows
removeUserNoSuccessor(rms, us, roomId, userId) ==
    IF ~rms[roomId].exists THEN [rooms |-> rms, users |-> us]
    ELSE
        LET left == MapDelete(rms[roomId].users, userId)
        IN  [rooms |-> [rms EXCEPT ![roomId] =
                            IF Len(left) = 0 THEN NoRoom ELSE [@ EXCEPT !.users = left]],
             users |-> [us EXCEPT ![userId] = NoUser]]

\* removeUser(roomId, userId)
removeUser(rms, us, roomId, userId) ==
    IF ~rms[roomId].exists THEN [rooms |-> rms, users |-> us]
    ELSE
        LET room == rms[roomId]
            left == MapDelete(room.users, userId)
            promote == userId = room.adminId /\ Len(left) > 0
            newAdmin == left[1]
            room1 == [room EXCEPT !.users = left,
                                  !.adminId = IF promote THEN newAdmin ELSE room.adminId]
            us1 == [us EXCEPT ![userId] = NoUser]
        IN  [rooms |-> [rms EXCEPT ![roomId] = IF Len(left) = 0 THEN NoRoom ELSE room1],
             users |-> IF promote THEN [us1 EXCEPT ![newAdmin].isAdmin = TRUE] ELSE us1]

\* getRoomUsers(roomId): Array.from(room.users.values()), [] when there is no room
getRoomUsers(rms, us, roomId) ==
    IF ~rms[roomId].exists THEN <<>>
    ELSE [i \in 1..Len(rms[roomId].users) |-> us[rms[roomId].users[i]]]

\* getDrawingState(roomId): room.drawingState, null (exists = FALSE) without a room
getDrawingState(rms, roomId) == rms[roomId]


(***************************************************************************)
(* The server's connection handlers (src/unnamed/part_005).  A handler is  *)
(* a function of the server state sv = [rooms, users, sock, nextSock,      *)
(* nextUser, nextOp] and of the event: it gives the state it leaves (sv)   *)
(* and the events it emits, in order (sent).                               *)
(***************************************************************************)
Emit(ev, to, body) == [ev |-> ev, to |-> to, body |-> body]

Result(sv, sent) == [sv |-> sv, sent |-> sent]

\* io.to(roomId): the connected sockets that joined the socket.io room
RoomSockets(sk, roomId) == {c \in Sockets : sk[c].connected /\ roomId \in sk[c].joined}

\* io.to(socketId): every socket is in the room named by its own id
SocketRoom(sk, socketId) == {c \in Sockets : c = socketId /\ sk[c].connected}

\* if (!currentRoom || !currentUser) return
Joined(sv, s) == sv.sock[s].currentUser # Null

\* io.on('connection'): a new socket, its closure holding currentUser = null and
\* currentRoom = null; socket ids are handed out in order
OnConnection(sv) ==
    Result([sv EXCEPT !.sock[sv.nextSock] = [connected |-> TRUE, currentUser |-> Null,
                                             currentRoom |-> "", joined |-> {}],
                      !.nextSock = sv.nextSock + 1],
           <<>>)

\* socket.on('join-room'), with the colour assignColor returned
OnJoinRoom(sv, s, roomId, color) ==
    LET userId == sv.nextUser
        added == addUser(sv.rooms, sv.users, roomId, userId, s, color)
        user == added.users[userId]
        sk == [sv.sock EXCEPT ![s].currentUser = userId,
                              ![s].currentRoom = roomId,
                              ![s].joined = @ \cup {roomId}]
        history == getOperationHistory(getDrawingState(added.rooms, roomId))
    IN  Result([sv EXCEPT !.rooms = added.rooms, !.users = added.users, !.sock = sk,
                          !.nextUser = userId + 1],
               << Emit("user-info", {s},
                       [userId |-> user.id, color |-> user.color, isAdmin |-> user.isAdmin]),
                  Emit("operation-history", {s}, history),
                  Emit("user-joined", RoomSockets(sk, roomId),
                       [userId |-> user.id, color |-> user.color]),
                  Emit("user-list", RoomSockets(sk, roomId),
                       getRoomUsers(added.rooms, added.users, roomId)) >>)

\* Array.prototype.find(op => op.id === operationId): index of the first match, 0 if none
FindOp(ops, operationId) == MinIndex({i \in 1..Len(ops) : ops[i].id = operationId})

\* the commit condition that stores every event
CommitConditionAlways(type, data) == TRUE

\* line 102: the commit condition; it reads data.data.isComplete for a non-durable type
CommitCondition(type, data) == type \in DurableTypes \/ data.isComplete

\* lines 107-113: move writes x and y of the entry named by data.operationId
applyMove(ops, type, data) ==
    LET i == FindOp(ops, data.operationId)
    IN  IF type = "move" /\ data.operationId # Null /\ i # 0 /\ ops[i].data.present
        THEN [ops EXCEPT ![i].data.x = data.x, ![i].data.y = data.y]
        ELSE ops

\* lines 116-122: resize writes width and height of the entry named by data.operationId
applyResize(ops, type, data) ==
    LET i == FindOp(ops, data.operationId)
    IN  IF type = "resize" /\ data.operationId # Null /\ i # 0 /\ ops[i].data.present
        THEN [ops EXCEPT ![i].data.width = data.width, ![i].data.height = data.height]
        ELSE ops

\* the TypeError the handler's try/catch swallows: data.data.isComplete read on a
\* missing payload, or a method called on a null drawingState
DrawingEventThrows(ds, type, data) ==
    \/ type \notin DurableTypes /\ ~data.present
    \/ ~ds.exists /\ ( \/ CommitCondition(type, data)
                       \/ type \in {"move", "resize"} /\ data.operationId # Null )

\* drawing-event that answers with socket.to(currentRoom): the author is left out
OnDrawingEventToOthers(sv, s, type, data) ==
    IF ~Joined(sv, s) THEN Result(sv, <<>>)
    ELSE
        LET currentUser == sv.users[sv.sock[s].currentUser]
            currentRoom == sv.sock[s].currentRoom
            drawingState == getDrawingState(sv.rooms, currentRoom)
            operation == [id |-> sv.nextOp, type |-> type, userId |-> currentUser.id,
                          userColor |-> currentUser.color, timestamp |-> sv.nextOp,
                          data |-> data, undone |-> FALSE]
            ds1 == IF CommitCondition(type, data)
                   THEN addOperation(drawingState, operation) ELSE drawingState
            ops2 == applyResize(applyMove(ds1.operations, type, data), type, data)
            sv1 == [sv EXCEPT !.nextOp = sv.nextOp + 1]
        IN  IF DrawingEventThrows(drawingState, type, data) THEN Result(sv1, <<>>)
            ELSE Result([sv1 EXCEPT !.rooms[currentRoom] = [ds1 EXCEPT !.operations = ops2]],
                        << Emit("drawing-update", RoomSockets(sv.sock, currentRoom) \ {s},
                                operation) >>)

\* socket.on('drawing-event'); timestamp is Date.now(), the server's clock, which
\* the model reads as the number of the event
OnDrawingEvent(sv, s, type, data) ==
    IF ~Joined(sv, s) THEN Result(sv, <<>>)
    ELSE
        LET currentUser == sv.users[sv.sock[s].currentUser]
            currentRoom == sv.sock[s].currentRoom
            drawingState == getDrawingState(sv.rooms, currentRoom)
            operation == [id |-> sv.nextOp, type |-> type, userId |-> currentUser.id,
                          userColor |-> currentUser.color, timestamp |-> sv.nextOp,
                          data |-> data, undone |-> FALSE]
            ds1 == IF CommitCondition(type, data)
                   THEN addOperation(drawingState, operation) ELSE drawingState
            ops2 == applyResize(applyMove(ds1.operations, type, data), type, data)
            sv1 == [sv EXCEPT !.nextOp = sv.nextOp + 1]
        IN  IF DrawingEventThrows(drawingState, type, data) THEN Result(sv1, <<>>)
            ELSE Result([sv1 EXCEPT !.rooms[currentRoom] = [ds1 EXCEPT !.operations = ops2]],
                        << Emit("drawing-update", RoomSockets(sv.sock, currentRoom),
                                operation) >>)

\* socket.on('cursor-move'): socket.to(currentRoom) leaves the sender out
OnCursorMove(sv, s) ==
    IF ~Joined(sv, s) THEN Result(sv, <<>>)
    ELSE Result(sv, << Emit("cursor-update",
                            RoomSockets(sv.sock, sv.sock[s].currentRoom) \ {s},
                            [userId |-> sv.sock[s].currentUser]) >>)

\* what undo-request / redo-request / admin-undo / admin-redo do once the log
\* method returned the entry it flipped, at index i (0: it returned null)
FlipAndBroadcast(sv, s, i, flag, ev) ==
    LET currentRoom == sv.sock[s].currentRoom
        ops == sv.rooms[currentRoom].operations
    IN  IF i = 0 THEN Result(sv, <<>>)
        ELSE Result([sv EXCEPT !.rooms[currentRoom].operations = SetUndone(ops, i, flag)],
                    << Emit(ev, RoomSockets(sv.sock, currentRoom),
                            [operationId |-> ops[i].id]) >>)

\* the drawingState of the connection's room is null: the handler's first call on
\* it throws and its catch logs the error
NoDrawingState(sv, s) == ~getDrawingState(sv.rooms, sv.sock[s].currentRoom).exists

\* socket.on('undo-request')
OnUndoRequest(sv, s) ==
    IF ~Joined(sv, s) \/ NoDrawingState(sv, s) THEN Result(sv, <<>>)
    ELSE FlipAndBroadcast(sv, s, undoIndex(sv.rooms[sv.sock[s].currentRoom].operations,
                                           sv.sock[s].currentUser), TRUE, "undo-update")

\* socket.on('redo-request')
OnRedoRequest(sv, s) ==
    IF ~Joined(sv, s) \/ NoDrawingState(sv, s) THEN Result(sv, <<>>)
    ELSE FlipAndBroadcast(sv, s, redoIndex(sv.rooms[sv.sock[s].currentRoom].operations,
                                           sv.sock[s].currentUser), FALSE, "redo-update")

\* if (!currentUser.isAdmin) { socket.emit('error', {message}); return; }
NotAdmin(sv, s) == ~sv.users[sv.sock[s].currentUser].isAdmin

Reject(sv, s, message) == Result(sv, << Emit("error", {s}, message) >>)

\* admin-undo without the isAdmin check of lines 206-209
OnAdminUndoUnchecked(sv, s) ==
    IF ~Joined(sv, s) \/ NoDrawingState(sv, s) THEN Result(sv, <<>>)
    ELSE FlipAndBroadcast(sv, s, globalUndoIndex(sv.rooms[sv.sock[s].currentRoom].operations),
                          TRUE, "undo-update")

\* socket.on('admin-undo')
OnAdminUndo(sv, s) ==
    IF ~Joined(sv, s) THEN Result(sv, <<>>)
    ELSE IF NotAdmin(sv, s) THEN Reject(sv, s, "Only admin can use global undo")
    ELSE IF NoDrawingState(sv, s) THEN Result(sv, <<>>)
    ELSE FlipAndBroadcast(sv, s, globalUndoIndex(sv.rooms[sv.sock[s].currentRoom].operations),
                          TRUE, "undo-update")

\* socket.on('admin-redo')
OnAdminRedo(sv, s) ==
    IF ~Joined(sv, s) THEN Result(sv, <<>>)
    ELSE IF NotAdmin(sv, s) THEN Reject(sv, s, "Only admin can use global redo")
    ELSE IF NoDrawingState(sv, s) THEN Result(sv, <<>>)
    ELSE FlipAndBroadcast(sv, s, globalRedoIndex(sv.rooms[sv.sock[s].currentRoom].operations),
                          FALSE, "redo-update")

\* a clear that takes the user's entries out of the log
clearByUserRemoving(ops, userId) ==
    LET Kept(op) == op.userId # userId IN SelectSeq(ops, Kept)

\* a clear that flags the entries of every author
clearByUserEveryone(ops, userId) ==
    [i \in 1..Len(ops) |-> [ops[i] EXCEPT !.undone = TRUE]]

\* lines 266-270: operations.forEach(op => { if (op.userId === id) op.undone = true })
clearByUser(ops, userId) ==
    [i \in 1..Len(ops) |-> IF ops[i].userId = userId
                           THEN [ops[i] EXCEPT !.undone = TRUE] ELSE ops[i]]

\* socket.on('clear-canvas')
OnClearCanvas(sv, s) ==
    IF ~Joined(sv, s) \/ NoDrawingState(sv, s) THEN Result(sv, <<>>)
    ELSE LET currentRoom == sv.sock[s].currentRoom
         IN  Result([sv EXCEPT !.rooms[currentRoom].operations =
                                    clearByUser(@, sv.sock[s].currentUser)],
                    << Emit("canvas-cleared", RoomSockets(sv.sock, currentRoom),
                            [userId |-> sv.sock[s].currentUser]) >>)

\* socket.on('admin-clear-all')
OnAdminClearAll(sv, s) ==
    IF ~Joined(sv, s) THEN Result(sv, <<>>)
    ELSE IF NotAdmin(sv, s) THEN Reject(sv, s, "Only admin can clear all")
    ELSE IF NoDrawingState(sv, s) THEN Result(sv, <<>>)
    ELSE LET currentRoom == sv.sock[s].currentRoom
         IN  Result([sv EXCEPT !.rooms[currentRoom] = clear(@)],
                    << Emit("admin-canvas-cleared", RoomSockets(sv.sock, currentRoom),
                            <<>>) >>)

\* socket.on('set-theme')
OnSetTheme(sv, s, theme) ==
    IF ~Joined(sv, s) THEN Result(sv, <<>>)
    ELSE IF NotAdmin(sv, s) THEN Reject(sv, s, "Only admin can change theme")
    ELSE Result(sv, << Emit("theme-change", RoomSockets(sv.sock, sv.sock[s].currentRoom),
                            [theme |-> theme]) >>)

\* socket.on('admin-transfer'): RoomManager defines no setAdmin, so for an admin the
\* call roomManager.setAdmin(...) throws a TypeError that the handler's catch logs
OnAdminTransfer(sv, s, userId) ==
    IF ~Joined(sv, s) THEN Result(sv, <<>>)
    ELSE IF NotAdmin(sv, s) THEN Reject(sv, s, "Only admin can transfer rights")
    ELSE Result(sv, <<>>)

\* socket.on('disconnect'), run once socket.io has closed s and taken it out of
\* its rooms
OnDisconnect(sv, s) ==
    LET sk1 == [sv.sock EXCEPT ![s] = ClosedSocket]
        userId == sv.sock[s].currentUser
        currentRoom == sv.sock[s].currentRoom
    IN  IF userId = Null THEN Result([sv EXCEPT !.sock = sk1], <<>>)
        ELSE
            LET wasAdmin == sv.users[userId].isAdmin
                removed == removeUser(sv.rooms, sv.users, currentRoom, userId)
                \* line 422: getRoom creates the room again when removeUser deleted it
                rms2 == getRoom(removed.rooms, currentRoom)
                room == rms2[currentRoom]
                promoted == wasAdmin /\ room.adminId # Null
                                     /\ room.adminId \in SeqRange(room.users)
            IN  Result([sv EXCEPT !.rooms = rms2, !.users = removed.users, !.sock = sk1],
                       << Emit("user-left", RoomSockets(sk1, currentRoom) \ {s},
                               [userId |-> userId]) >>
                       \o (IF promoted
                           THEN << Emit("admin-promoted",
                                        SocketRoom(sk1, removed.users[room.adminId].socketId),
                                        <<>>) >>
                           ELSE <<>>)
                       \o << Emit("user-list", RoomSockets(sk1, currentRoom),
                                  getRoomUsers(rms2, removed.users, currentRoom)) >>)

\* socket.on('admin-kick-user'): targetSocket.disconnect(true) runs the target
\* connection's disconnect listener before the handler returns
OnAdminKickUser(sv, s, targetUserId) ==
    IF ~Joined(sv, s) THEN Result(sv, <<>>)
    ELSE IF NotAdmin(sv, s) THEN Reject(sv, s, "Only admin can kick users")
    ELSE
        LET currentRoom == sv.sock[s].currentRoom
            sv1 == [sv EXCEPT !.rooms = getRoom(sv.rooms, currentRoom)]
            found == targetUserId \in SeqRange(sv1.rooms[currentRoom].users)
            targetSocketId == sv.users[targetUserId].socketId
            kicked == << Emit("kicked", SocketRoom(sv.sock, targetSocketId), <<>>) >>
        IN  IF ~found THEN Result(sv1, <<>>)
            ELSE IF ~sv.sock[targetSocketId].connected THEN Result(sv1, kicked)
            ELSE LET res == OnDisconnect(sv1, targetSocketId)
                 IN  Result(res.sv, kicked \o res.sent)

(***************************************************************************)
(* The client (src/client/canvas.js, src/client/websocket.js and the       *)
(* callbacks main.js installs).  Of a CanvasManager the model keeps the    *)
(* operation list and currentUserId, and the number of temporary ids the   *)
(* client has made.                                                        *)
(***************************************************************************)
\* constructor: the maps remoteShapePreviews, remoteTextPreviews (keyed by user id),
\* remoteMovePreviews (keyed by operation id) and activeStrokes (keyed by user id)
\* are kept by their keys; a move preview also records the user whose event set it,
\* which the code does not store
NewCanvas ==
    [operations |-> <<>>, currentUserId |-> Null, temps |-> 0,
     remoteShapePreviews |-> {}, remoteTextPreviews |-> {},
     remoteMovePreviews |-> {}, activeStrokes |-> {}]

\* 'temp-' + Date.now() + '-' + random: the n-th temporary id of the client on
\* connection s; temporary ids lie above TempBase, server ids below
TempBase == 100
TempId(s, n) == TempBase + NSockets * n + s

\* setUserId
setUserId(cm, userId) == [cm EXCEPT !.currentUserId = userId]

\* clearCanvas
clearCanvas(cm) == [cm EXCEPT !.operations = <<>>]

\* loadOperationHistory: this.operations = history.operations || []
loadOperationHistory(cm, history) == [cm EXCEPT !.operations = history.operations]

\* the reconciliation that always misses: a confirmed operation is pushed
pendingOpIndexNone(operations, operation) == 0

\* lines 1565-1566: findIndex(op => op.id === operation.data.tempId), 0 for -1 and
\* for an operation without data.tempId
pendingOpIndex(operations, operation) ==
    IF operation.data.present /\ operation.data.tempId # Null
    THEN MinIndex({i \in 1..Len(operations) : operations[i].id = operation.data.tempId})
    ELSE 0

\* lines 1496-1506 and 1509-1517: move / resize write the entry data.operationId names
canvasMove(operations, operation) ==
    LET i == FindOp(operations, operation.data.operationId)
    IN  IF i # 0 /\ operations[i].data.present
        THEN IF operation.type = "move"
             THEN [operations EXCEPT ![i].data.x = operation.data.x,
                                     ![i].data.y = operation.data.y]
             ELSE [operations EXCEPT ![i].data.width = operation.data.width,
                                     ![i].data.height = operation.data.height]
        ELSE operations

\* data.text || '' and data.tool of a payload that may not carry them
TextOf(data) == IF "text" \in DOMAIN data THEN data.text ELSE ""
ToolOf(data) == IF "tool" \in DOMAIN data THEN data.tool ELSE ""

\* !textValue.trim()
Blank(text) == text \in {"", " "}

\* Map.delete(operationId) on remoteMovePreviews
DeleteMovePreview(previews, operationId) ==
    {p \in previews : p.operationId # operationId}

\* lines 1438-1493: the shape-preview, text-preview and move-preview branches; a
\* client's own previews are skipped, `operation.data || {}` reads a missing
\* payload as one without phase, text or operationId
canvasAddPreview(cm, operation) ==
    LET data == operation.data
        own == cm.currentUserId # Null /\ operation.userId = cm.currentUserId
    IN  IF own THEN cm
        ELSE CASE operation.type = "shape-preview" ->
                    IF operation.userId = Null THEN cm
                    ELSE IF data.phase = "end"
                         THEN [cm EXCEPT !.remoteShapePreviews = @ \ {operation.userId}]
                         ELSE [cm EXCEPT !.remoteShapePreviews = @ \cup {operation.userId}]
               [] operation.type = "text-preview" ->
                    IF operation.userId = Null THEN cm
                    ELSE IF data.phase = "end" \/ Blank(TextOf(data))
                         THEN [cm EXCEPT !.remoteTextPreviews = @ \ {operation.userId}]
                         ELSE [cm EXCEPT !.remoteTextPreviews = @ \cup {operation.userId}]
               [] operation.type = "move-preview" ->
                    IF data.operationId = Null THEN cm
                    ELSE IF data.phase = "end"
                         THEN [cm EXCEPT !.remoteMovePreviews =
                                            DeleteMovePreview(@, data.operationId)]
                         ELSE [cm EXCEPT !.remoteMovePreviews =
                                            DeleteMovePreview(@, data.operationId)
                                            \cup {[operationId |-> data.operationId,
                                                   by |-> operation.userId]}]

\* lines 1527-1560: a segment of the eraser is skipped, any other opens or extends
\* the sender's active stroke; without a payload operation.data.color throws
canvasAddSegment(cm, operation) ==
    IF ~operation.data.present \/ ToolOf(operation.data) = "eraser" THEN cm
    ELSE [cm EXCEPT !.activeStrokes = @ \cup {operation.userId}]

\* lines 1519-1527: a received shape / text ends its author's preview of that kind
canvasEndPreview(cm, operation) ==
    IF operation.userId = Null THEN cm
    ELSE CASE operation.type = "shape" ->
                [cm EXCEPT !.remoteShapePreviews = @ \ {operation.userId}]
           [] operation.type = "text" ->
                [cm EXCEPT !.remoteTextPreviews = @ \ {operation.userId}]
           [] OTHER -> cm

\* CanvasManager.addOperation.  The preview branches and the draw-incremental branch
\* return without touching the operation list.
canvasAddOperation(cm, operation) ==
    LET operations == cm.operations
        pending == pendingOpIndex(operations, operation)
        cm1 == canvasEndPreview(cm, operation)
    IN  CASE operation.type = "clear" -> clearCanvas(cm)
          [] operation.type \in PreviewTypes -> canvasAddPreview(cm, operation)
          [] /\ operation.type \in {"move", "resize"}
             /\ operation.data.present
             /\ operation.data.operationId # Null ->
                [cm EXCEPT !.operations = canvasMove(operations, operation),
                           !.remoteMovePreviews =
                                IF operation.type = "move"
                                THEN DeleteMovePreview(@, operation.data.operationId)
                                ELSE @]
          [] operation.type = "draw-incremental" -> canvasAddSegment(cm, operation)
          [] OTHER ->
                IF pending # 0
                THEN [cm1 EXCEPT !.operations[pending] = operation]
                ELSE IF FindOp(operations, operation.id) # 0
                     THEN cm1
                     ELSE [cm1 EXCEPT !.operations = Append(operations, operation),
                                      !.activeStrokes = @ \ {operation.userId}]

\* main.js onUndoUpdate / onRedoUpdate: flag the entry the event names, if it is held
onFlagUpdate(cm, data, flag) ==
    LET i == FindOp(cm.operations, data.operationId)
    IN  IF i = 0 THEN cm ELSE [cm EXCEPT !.operations[i].undone = flag]

\* main.js onCanvasCleared: flag every entry of the user the event names
onCanvasCleared(cm, data) ==
    [cm EXCEPT !.operations =
        [i \in 1..Len(cm.operations) |->
            IF cm.operations[i].userId = data.userId
            THEN [cm.operations[i] EXCEPT !.undone = TRUE]
            ELSE cm.operations[i]]]

\* main.js onAdminCanvasCleared: operations = [], activeStrokes.clear(), clearCanvas()
onAdminCanvasCleared(cm) == [clearCanvas(cm) EXCEPT !.activeStrokes = {}]

\* main.js onUserLeft: a notification, and remoteCursors.delete(user.userId); the
\* CanvasManager is not touched
onUserLeft(cm, data) == cm

\* the events whose callback reads or writes the state kept of a CanvasManager, and
\* user-left
CanvasEvents ==
    {"user-info", "operation-history", "drawing-update", "undo-update",
     "redo-update", "canvas-cleared", "admin-canvas-cleared", "user-left"}

\* the callback websocket.js runs for a received event m
onEvent(cm, m) ==
    CASE m.ev = "user-info" -> setUserId(cm, m.body.userId)
      [] m.ev = "operation-history" -> loadOperationHistory(cm, m.body)
      [] m.ev = "drawing-update" -> canvasAddOperation(cm, m.body)
      [] m.ev = "undo-update" -> onFlagUpdate(cm, m.body, TRUE)
      [] m.ev = "redo-update" -> onFlagUpdate(cm, m.body, FALSE)
      [] m.ev = "canvas-cleared" -> onCanvasCleared(cm, m.body)
      [] m.ev = "admin-canvas-cleared" -> onAdminCanvasCleared(cm)
      [] m.ev = "user-left" -> onUserLeft(cm, m.body)
      [] OTHER -> cm

\* the operation canvas.js builds when a shape or a text is finished and main.js
\* when an image is dropped: id and data.tempId are the temporary id
placeholder(cm, type, tempId) ==
    [id |-> tempId, type |-> type,
     userId |-> IF type = "image" THEN cm.currentUserId ELSE Null,
     userColor |-> Null, timestamp |-> Null,
     data |-> Data(FALSE, Null, 1, 1, 1, 1, tempId, ""),
     undone |-> FALSE]

\* a transport that puts each emission in front of what a connection still waits for
RECURSIVE PostInFront(_, _)
PostInFront(box, sent) ==
    IF sent = <<>> THEN box
    ELSE LET m == Head(sent)
             box1 == IF m.ev \in CanvasEvents
                     THEN [c \in Sockets |->
                              IF c \in m.to THEN <<[ev |-> m.ev, body |-> m.body]>> \o box[c]
                              ELSE box[c]]
                     ELSE box
         IN  PostInFront(box1, Tail(sent))

\* the transport: each emission joins, in order, the queue of every connection it
\* is addressed to; emissions no CanvasManager callback listens to are left out
RECURSIVE Post(_, _)
Post(box, sent) ==
    IF sent = <<>> THEN box
    ELSE LET m == Head(sent)
             box1 == IF m.ev \in CanvasEvents
                     THEN [c \in Sockets |->
                              IF c \in m.to THEN Append(box[c], [ev |-> m.ev, body |-> m.body])
                              ELSE box[c]]
                     ELSE box
         IN  Post(box1, Tail(sent))

(***************************************************************************)
(* The state machine.                                                      *)
(***************************************************************************)
Server ==
    [rooms |-> rooms, users |-> users, sock |-> sock,
     nextSock |-> nextSock, nextUser |-> nextUser, nextOp |-> nextOp]

Init ==
    /\ rooms = [r \in RoomIds |-> NoRoom]
    /\ users = [u \in UserIds |-> NoUser]
    /\ sock = [s \in Sockets |-> ClosedSocket]
    /\ nextSock = 1
    /\ nextUser = 1
    /\ nextOp = 1
    /\ inbox = [s \in Sockets |-> <<>>]
    /\ client = [s \in Sockets |-> NewCanvas]
    /\ emitted = <<>>
    /\ received = [s \in Sockets |-> <<>>]

\* the server state a handler leaves
Commit(res) ==
    /\ rooms' = res.sv.rooms
    /\ users' = res.sv.users
    /\ sock' = res.sv.sock
    /\ nextSock' = res.sv.nextSock
    /\ nextUser' = res.sv.nextUser
    /\ nextOp' = res.sv.nextOp

\* payload of a stroke, shape, text or image: position 1,1 and size 1,1
Content == Data(FALSE, Null, 1, 1, 1, 1, Null, "")

Themes == {"light", "dark"}

(***************************************************************************)
(* The server alone: every handler, fed by any connection in any order.    *)
(* A drawing event here is a completed stroke.                             *)
(***************************************************************************)
ServerTypes == {"draw"}
ServerData == {Content}

Connection ==
    /\ nextSock \in Sockets
    /\ Commit(OnConnection(Server))
    /\ UNCHANGED clientVars

JoinRoom(s, roomId) ==
    /\ sock[s].connected
    /\ nextUser \in UserIds
    /\ \E color \in assignColor(getRoom(rooms, roomId)[roomId], users) :
        Commit(OnJoinRoom(Server, s, roomId, color))
    /\ UNCHANGED clientVars

DrawingEvent(s, type, data) ==
    /\ sock[s].connected
    /\ nextOp <= MaxSessionOps
    /\ Commit(OnDrawingEvent(Server, s, type, data))
    /\ UNCHANGED clientVars

CursorMove(s) ==
    sock[s].connected /\ Commit(OnCursorMove(Server, s)) /\ UNCHANGED clientVars

UndoRequest(s) ==
    sock[s].connected /\ Commit(OnUndoRequest(Server, s)) /\ UNCHANGED clientVars

RedoRequest(s) ==
    sock[s].connected /\ Commit(OnRedoRequest(Server, s)) /\ UNCHANGED clientVars

AdminUndo(s) ==
    sock[s].connected /\ Commit(OnAdminUndo(Server, s)) /\ UNCHANGED clientVars

AdminRedo(s) ==
    sock[s].connected /\ Commit(OnAdminRedo(Server, s)) /\ UNCHANGED clientVars

ClearCanvas(s) ==
    sock[s].connected /\ Commit(OnClearCanvas(Server, s)) /\ UNCHANGED clientVars

AdminClearAll(s) ==
    sock[s].connected /\ Commit(OnAdminClearAll(Server, s)) /\ UNCHANGED clientVars

AdminKickUser(s, userId) ==
    sock[s].connected /\ Commit(OnAdminKickUser(Server, s, userId)) /\ UNCHANGED clientVars

SetTheme(s, theme) ==
    sock[s].connected /\ Commit(OnSetTheme(Server, s, theme)) /\ UNCHANGED clientVars

AdminTransfer(s, userId) ==
    sock[s].connected /\ Commit(OnAdminTransfer(Server, s, userId)) /\ UNCHANGED clientVars

Disconnect(s) ==
    sock[s].connected /\ Commit(OnDisconnect(Server, s)) /\ UNCHANGED clientVars

Next ==
    \/ Connection
    \/ \E s \in Sockets, roomId \in RoomIds : JoinRoom(s, roomId)
    \/ \E s \in Sockets, type \in ServerTypes, data \in ServerData : DrawingEvent(s, type, data)
    \/ \E s \in Sockets : CursorMove(s)
    \/ \E s \in Sockets : UndoRequest(s)
    \/ \E s \in Sockets : RedoRequest(s)
    \/ \E s \in Sockets : AdminUndo(s)
    \/ \E s \in Sockets : AdminRedo(s)
    \/ \E s \in Sockets : ClearCanvas(s)
    \/ \E s \in Sockets : AdminClearAll(s)
    \/ \E s \in Sockets, userId \in UserIds : AdminKickUser(s, userId)
    \/ \E s \in Sockets, theme \in Themes : SetTheme(s, theme)
    \/ \E s \in Sockets, userId \in UserIds : AdminTransfer(s, userId)
    \/ \E s \in Sockets : Disconnect(s)

Spec == Init /\ [][Next]_vars


(***************************************************************************)
(* The operation log of one room: two connections join room r1 once each   *)
(* (the first is its admin), commit strokes, undo, redo and clear in any   *)
(* order, and may leave.                                                   *)
(***************************************************************************)
LogSockets == {1, 2}

LogConnection ==
    /\ nextSock \in LogSockets
    /\ Commit(OnConnection(Server))
    /\ UNCHANGED clientVars

LogJoinRoom(s) ==
    /\ sock[s].connected
    /\ sock[s].currentUser = Null
    /\ nextUser \in UserIds
    /\ \E color \in assignColor(getRoom(rooms, "r1")["r1"], users) :
        Commit(OnJoinRoom(Server, s, "r1", color))
    /\ UNCHANGED clientVars

LogDrawingEvent(s) ==
    /\ sock[s].connected
    /\ nextOp \in OpIds
    /\ Commit(OnDrawingEvent(Server, s, "draw", Content))
    /\ UNCHANGED clientVars

LogNext ==
    \/ LogConnection
    \/ \E s \in LogSockets : LogJoinRoom(s)
    \/ \E s \in LogSockets : LogDrawingEvent(s)
    \/ \E s \in LogSockets : UndoRequest(s)
    \/ \E s \in LogSockets : RedoRequest(s)
    \/ \E s \in LogSockets : AdminUndo(s)
    \/ \E s \in LogSockets : AdminRedo(s)
    \/ \E s \in LogSockets : ClearCanvas(s)
    \/ \E s \in LogSockets : AdminClearAll(s)
    \/ \E s \in LogSockets : Disconnect(s)

SpecLog == Init /\ [][LogNext]_vars


(***************************************************************************)
(* The edits of one room: two connections join room r1 once each and send  *)
(* drawing events with every kind of payload.  SpecEdit sends the durable, *)
(* incremental, preview and clear types, and admin-clear-all empties the   *)
(* log; SpecMove sends an image and the move and resize events that target *)
(* it, and undo-request varies the undone flags.                           *)
(***************************************************************************)
\* drawing events handled in a run of SpecEdit
MaxEdits == 2
\* drawing events handled in a run of SpecMove
MaxMoves == 3

EditTypes == DurableTypes \cup PreviewTypes \cup {"draw-incremental", "clear"}
MoveTypes == {"image", "move", "resize"}

\* the two positions / sizes a move or resize payload carries
MoveValues == {2, 3}

\* a payload that holds content, an isComplete mark and a preview phase
Marked(isComplete, phase) == Data(isComplete, Null, 1, 1, 1, 1, Null, phase)

\* onOperationMove sends {operationId, x, y}
MoveData(isComplete, operationId, v) ==
    Data(isComplete, operationId, v, v, Null, Null, Null, "")

\* onOperationResize sends {operationId, width, height}
ResizeData(isComplete, operationId, v) ==
    Data(isComplete, operationId, Null, Null, v, v, Null, "")

\* the operation ids a client can name: none, or one of those the server issued
Targets(issued) == {Null} \cup (1..issued)

\* the payloads a drawing event of a type may carry when `issued` ids were handed out
EditData(type, issued) ==
    CASE type \in DurableTypes -> {NoData, Content}
      [] type \in PreviewTypes ->
            {NoData} \cup {Marked(c, p) : c \in BOOLEAN, p \in {"", "end"}}
      [] type = "move" ->
            {NoData} \cup {MoveData(c, o, v) :
                              c \in BOOLEAN, o \in Targets(issued), v \in MoveValues}
      [] type = "resize" ->
            {NoData} \cup {ResizeData(c, o, v) :
                              c \in BOOLEAN, o \in Targets(issued), v \in MoveValues}
      [] OTHER -> {NoData, Marked(FALSE, ""), Marked(TRUE, "")}

EditDrawingEvent(s, type, data) ==
    /\ sock[s].connected
    /\ nextOp <= MaxEdits
    /\ Commit(OnDrawingEvent(Server, s, type, data))
    /\ UNCHANGED clientVars

EditNext ==
    \/ LogConnection
    \/ \E s \in LogSockets : LogJoinRoom(s)
    \/ \E s \in LogSockets, type \in EditTypes :
          \E data \in EditData(type, nextOp - 1) : EditDrawingEvent(s, type, data)
    \/ \E s \in LogSockets : AdminClearAll(s)

SpecEdit == Init /\ [][EditNext]_vars

MoveDrawingEvent(s, type, data) ==
    /\ sock[s].connected
    /\ nextOp <= MaxMoves
    /\ Commit(OnDrawingEvent(Server, s, type, data))
    /\ UNCHANGED clientVars

MoveNext ==
    \/ LogConnection
    \/ \E s \in LogSockets : LogJoinRoom(s)
    \/ \E s \in LogSockets, type \in MoveTypes :
          \E data \in EditData(type, nextOp - 1) : MoveDrawingEvent(s, type, data)
    \/ \E s \in LogSockets : UndoRequest(s)

SpecMove == Init /\ [][MoveNext]_vars


(***************************************************************************)
(* The clients of one room: two clients connect and join room r1 once      *)
(* each; a client finishes shapes, texts and images (a placeholder is      *)
(* added at once, the event is sent) and completes strokes.  The server    *)
(* handles what a client sent in the order of these steps; what it emits   *)
(* waits in the queue of each addressee until the client's callback runs.  *)
(***************************************************************************)
\* placeholders a client makes in a run of SpecClient
MaxShapes == 1
\* drawing events the server handles in a run of SpecClient
MaxClientOps == 2

ShapeTypes == {"shape", "text", "image"}

\* emitCompleteStroke sends {points, color, width, tool, isComplete: true}
Stroke == Data(TRUE, Null, 1, 1, 1, 1, Null, "")

\* the server handled an event: the state it leaves, its emissions on their way
Handle(res) ==
    /\ Commit(res)
    /\ inbox' = Post(inbox, res.sent)
    /\ UNCHANGED <<emitted, received>>

ClientConnection ==
    /\ nextSock \in LogSockets
    /\ Handle(OnConnection(Server))
    /\ UNCHANGED client

ClientJoinRoom(s) ==
    /\ sock[s].connected
    /\ sock[s].currentUser = Null
    /\ nextUser \in UserIds
    /\ \E color \in assignColor(getRoom(rooms, "r1")["r1"], users) :
        Handle(OnJoinRoom(Server, s, "r1", color))
    /\ UNCHANGED client

\* onShapeComplete / the image drop: canvasManager.addOperation(operation), then
\* wsClient.sendDrawingEvent(operation.type, operation.data)
ShapeComplete(s, type) ==
    /\ sock[s].connected
    /\ client[s].temps < MaxShapes
    /\ nextOp <= MaxClientOps
    /\ LET operation == placeholder(client[s], type, TempId(s, client[s].temps))
       IN  /\ client' = [client EXCEPT ![s] =
                            [canvasAddOperation(client[s], operation) EXCEPT !.temps = @ + 1]]
           /\ Handle(OnDrawingEvent(Server, s, type, operation.data))

CompleteStroke(s) ==
    /\ sock[s].connected
    /\ nextOp <= MaxClientOps
    /\ Handle(OnDrawingEvent(Server, s, "draw", Stroke))
    /\ UNCHANGED client

\* the client on connection s runs the callback of the next event it received
Deliver(s) ==
    /\ inbox[s] # <<>>
    /\ client' = [client EXCEPT ![s] = onEvent(@, Head(inbox[s]))]
    /\ inbox' = [inbox EXCEPT ![s] = Tail(@)]
    /\ UNCHANGED <<serverVars, emitted, received>>

ClientNext ==
    \/ ClientConnection
    \/ \E s \in LogSockets : ClientJoinRoom(s)
    \/ \E s \in LogSockets, type \in ShapeTypes : ShapeComplete(s, type)
    \/ \E s \in LogSockets : CompleteStroke(s)
    \/ \E s \in LogSockets : Deliver(s)

SpecClient == Init /\ [][ClientNext]_vars


(***************************************************************************)
(* The order of events: two clients connect and join room r1 once each,    *)
(* complete strokes and ask for undo and redo.  The history variables      *)
(* record the drawing-update, undo-update, redo-update and canvas-cleared  *)
(* events in the order the server emitted them and in the order each       *)
(* client got them.                                                        *)
(***************************************************************************)
\* events of OrderEvents emitted in a run of SpecOrder
MaxEmitted == 4

OrderEvents == {"drawing-update", "undo-update", "redo-update", "canvas-cleared"}

\* what names an event of OrderEvents: the event and the id of its operation (of
\* its user, for canvas-cleared); for a drawing-update, whether the handler's commit
\* condition held for the operation
EventKey(ev, body) ==
    [ev |-> ev,
     id |-> CASE ev = "drawing-update" -> body.id
              [] ev = "canvas-cleared" -> body.userId
              [] OTHER -> body.operationId,
     commit |-> ev = "drawing-update" /\ CommitCondition(body.type, body.data)]

\* the events of OrderEvents among a handler's emissions, each with its addressees
RECURSIVE Emitted(_)
Emitted(sent) ==
    IF sent = <<>> THEN <<>>
    ELSE (IF Head(sent).ev \in OrderEvents
          THEN << [key |-> EventKey(Head(sent).ev, Head(sent).body), to |-> Head(sent).to] >>
          ELSE <<>>) \o Emitted(Tail(sent))

OrderHandle(res) ==
    /\ Commit(res)
    /\ inbox' = Post(inbox, res.sent)
    /\ emitted' = emitted \o Emitted(res.sent)
    /\ UNCHANGED <<client, received>>

OrderConnection ==
    /\ nextSock \in LogSockets
    /\ OrderHandle(OnConnection(Server))

OrderJoinRoom(s) ==
    /\ sock[s].connected
    /\ sock[s].currentUser = Null
    /\ nextUser \in UserIds
    /\ \E color \in assignColor(getRoom(rooms, "r1")["r1"], users) :
        OrderHandle(OnJoinRoom(Server, s, "r1", color))

OrderStroke(s) ==
    /\ sock[s].connected
    /\ Len(emitted) < MaxEmitted
    /\ OrderHandle(OnDrawingEvent(Server, s, "draw", Stroke))

OrderUndo(s) ==
    /\ sock[s].connected
    /\ Len(emitted) < MaxEmitted
    /\ OrderHandle(OnUndoRequest(Server, s))

OrderRedo(s) ==
    /\ sock[s].connected
    /\ Len(emitted) < MaxEmitted
    /\ OrderHandle(OnRedoRequest(Server, s))

OrderDeliver(s) ==
    /\ inbox[s] # <<>>
    /\ client' = [client EXCEPT ![s] = onEvent(@, Head(inbox[s]))]
    /\ inbox' = [inbox EXCEPT ![s] = Tail(@)]
    /\ received' = [received EXCEPT ![s] =
                        IF Head(inbox[s]).ev \in OrderEvents
                        THEN Append(@, EventKey(Head(inbox[s]).ev, Head(inbox[s]).body))
                        ELSE @]
    /\ UNCHANGED <<serverVars, emitted>>

OrderNext ==
    \/ OrderConnection
    \/ \E s \in LogSockets : OrderJoinRoom(s)
    \/ \E s \in LogSockets : OrderStroke(s)
    \/ \E s \in LogSockets : OrderUndo(s)
    \/ \E s \in LogSockets : OrderRedo(s)
    \/ \E s \in LogSockets : OrderDeliver(s)

SpecOrder == Init /\ [][OrderNext]_vars


(***************************************************************************)
(* The history of one room: two connections join room r1 once each,       *)
(* commit strokes and completed incremental strokes, send segments, moves  *)
(* and resizes, and ask for undo, redo and clear-canvas.  Nobody sends     *)
(* admin-clear-all.  The history variable `emitted` records what the       *)
(* server announced.                                                       *)
(***************************************************************************)
\* drawing events handled in a run of SpecHistory
MaxHistoryOps == 2
\* events of OrderEvents emitted in a run of SpecHistory
MaxAnnounced == 3

HistoryTypes == {"draw", "draw-incremental", "move", "resize"}

\* the payloads of SpecHistory: one position and one size, for an id the server
\* issued; a move may be marked complete
HistoryData(type, issued) ==
    CASE type = "draw" -> {Content}
      [] type = "draw-incremental" -> {Marked(FALSE, ""), Marked(TRUE, "")}
      [] type = "move" -> {MoveData(c, o, 2) : c \in BOOLEAN, o \in 1..issued}
      [] type = "resize" -> {ResizeData(FALSE, o, 3) : o \in 1..issued}

\* the server handled an event; what it announced joins the history
Announce(res) ==
    /\ Commit(res)
    /\ emitted' = emitted \o Emitted(res.sent)
    /\ UNCHANGED <<inbox, client, received>>

HistoryConnection ==
    /\ nextSock \in LogSockets
    /\ Announce(OnConnection(Server))

HistoryJoinRoom(s) ==
    /\ sock[s].connected
    /\ sock[s].currentUser = Null
    /\ nextUser \in UserIds
    /\ \E color \in assignColor(getRoom(rooms, "r1")["r1"], users) :
        Announce(OnJoinRoom(Server, s, "r1", color))

HistoryDrawingEvent(s, type, data) ==
    /\ sock[s].connected
    /\ nextOp <= MaxHistoryOps
    /\ Announce(OnDrawingEvent(Server, s, type, data))

HistoryUndo(s) ==
    /\ sock[s].connected
    /\ Len(emitted) < MaxAnnounced
    /\ Announce(OnUndoRequest(Server, s))

HistoryRedo(s) ==
    /\ sock[s].connected
    /\ Len(emitted) < MaxAnnounced
    /\ Announce(OnRedoRequest(Server, s))

HistoryClearCanvas(s) ==
    /\ sock[s].connected
    /\ Len(emitted) < MaxAnnounced
    /\ Announce(OnClearCanvas(Server, s))

HistoryNext ==
    \/ HistoryConnection
    \/ \E s \in LogSockets : HistoryJoinRoom(s)
    \/ \E s \in LogSockets, type \in HistoryTypes :
          \E data \in HistoryData(type, nextOp - 1) : HistoryDrawingEvent(s, type, data)
    \/ \E s \in LogSockets : HistoryUndo(s)
    \/ \E s \in LogSockets : HistoryRedo(s)
    \/ \E s \in LogSockets : HistoryClearCanvas(s)

SpecHistory == Init /\ [][HistoryNext]_vars


(***************************************************************************)
(* The previews of one room: two clients connect and join room r1 once     *)
(* each, send shape, text and move previews and stroke segments, and may   *)
(* leave; each client handles the events it is sent.                       *)
(***************************************************************************)
\* drawing events handled in a run of SpecPreview
MaxPreviews == 2

PreviewEventTypes == PreviewTypes \cup {"draw-incremental"}

\* a preview payload {phase, text, operationId, ...} or a segment {points, tool, ...}
PreviewData(phase, operationId, text, tool) ==
    [text |-> text, tool |-> tool] @@ Data(FALSE, operationId, 1, 1, 1, 1, Null, phase)

\* the payloads a client sends with an event of type `type`
PreviewPayloads(type) ==
    CASE type = "shape-preview" -> {PreviewData(ph, Null, "", Null) : ph \in {"", "end"}}
      [] type = "text-preview" -> {PreviewData("", Null, "hi", Null),
                                   PreviewData("end", Null, "", Null)}
      [] type = "move-preview" -> {PreviewData(ph, 1, "", Null) : ph \in {"", "end"}}
      [] type = "draw-incremental" -> {PreviewData("", Null, "", "pen")}

PreviewEvent(s, type, data) ==
    /\ sock[s].connected
    /\ nextOp <= MaxPreviews
    /\ Handle(OnDrawingEvent(Server, s, type, data))
    /\ UNCHANGED client

PreviewDisconnect(s) ==
    /\ sock[s].connected
    /\ Handle(OnDisconnect(Server, s))
    /\ UNCHANGED client

PreviewNext ==
    \/ ClientConnection
    \/ \E s \in LogSockets : ClientJoinRoom(s)
    \/ \E s \in LogSockets : \E type \in PreviewEventTypes :
          \E data \in PreviewPayloads(type) : PreviewEvent(s, type, data)
    \/ \E s \in LogSockets : PreviewDisconnect(s)
    \/ \E s \in LogSockets : Deliver(s)

SpecPreview == Init /\ [][PreviewNext]_vars

(***************************************************************************)
(* The roster of one room, at the RoomManager: users are added to room r1, *)
(* each with the colour assignColor returns, and removed, in any order and *)
(* beyond the size of the palette.  Each user has a connection of its own. *)
(***************************************************************************)
\* users added in a run of SpecColor
MaxColorUsers == 12
\* users removed in a run of SpecColor
MaxColorRemovals == 2

ColorUsers == 1..MaxColorUsers

ColorInit ==
    /\ rooms = [r \in RoomIds |-> NoRoom]
    /\ users = [u \in ColorUsers |-> NoUser]
    /\ sock = [s \in Sockets |-> ClosedSocket]
    /\ nextSock = 1
    /\ nextUser = 1
    /\ nextOp = 1
    /\ inbox = [s \in Sockets |-> <<>>]
    /\ client = [s \in Sockets |-> NewCanvas]
    /\ emitted = <<>>
    /\ received = [s \in Sockets |-> <<>>]

\* roomManager.addUser("r1", userId, userName, socket.id)
ColorAddUser ==
    /\ nextUser \in ColorUsers
    /\ \E color \in assignColor(getRoom(rooms, "r1")["r1"], users) :
        LET added == addUser(rooms, users, "r1", nextUser, nextUser, color)
        IN  rooms' = added.rooms /\ users' = added.users
    /\ nextUser' = nextUser + 1
    /\ UNCHANGED <<sock, nextSock, nextOp, clientVars>>

\* roomManager.removeUser("r1", userId)
ColorRemoveUser(userId) ==
    /\ userId \in SeqRange(rooms["r1"].users)
    /\ nextUser - 1 - Len(rooms["r1"].users) < MaxColorRemovals
    /\ LET removed == removeUser(rooms, users, "r1", userId)
       IN  rooms' = removed.rooms /\ users' = removed.users
    /\ UNCHANGED <<sock, nextSock, nextUser, nextOp, clientVars>>

ColorNext ==
    \/ ColorAddUser
    \/ \E userId \in ColorUsers : ColorRemoveUser(userId)

SpecColor == ColorInit /\ [][ColorNext]_vars

(***************************************************************************)
(* The clients and the server of one room: two clients connect and join    *)
(* room r1 once each, at any moment of the session; a client completes     *)
(* strokes and shapes, streams segments of a stroke, and asks for undo,    *)
(* redo, clear of its own entries and the admin's undo, redo and clear of  *)
(* everything.                                                             *)
(* What the server emits waits in the queue of each addressee until the    *)
(* client's callback runs.                                                 *)
(***************************************************************************)
\* drawing events handled in a run of SpecSync
MaxSyncOps == 2
\* events that wait for one client when the server takes up the next request
MaxPending == 1

\* emitDrawingEvent sends {points, color, width, tool, isComplete}
Segment(isComplete) == [tool |-> "pen"] @@ Data(isComplete, Null, 1, 1, 1, 1, Null, "")

\* the server takes up a request of connection s
SyncReady(s) ==
    /\ sock[s].connected
    /\ \A c \in Sockets : Len(inbox[c]) <= MaxPending

SyncStroke(s) ==
    /\ SyncReady(s)
    /\ nextOp <= MaxSyncOps
    /\ Handle(OnDrawingEvent(Server, s, "draw", Stroke))
    /\ UNCHANGED client

SyncSegment(s, isComplete) ==
    /\ SyncReady(s)
    /\ nextOp <= MaxSyncOps
    /\ Handle(OnDrawingEvent(Server, s, "draw-incremental", Segment(isComplete)))
    /\ UNCHANGED client

\* onShapeComplete: the placeholder is added, the event is sent; the client sent
\* join-room when it connected (main.js 33-34), so the server handles that first
SyncShape(s, type) ==
    /\ SyncReady(s)
    /\ Joined(Server, s)
    /\ client[s].temps < MaxShapes
    /\ nextOp <= MaxSyncOps
    /\ LET operation == placeholder(client[s], type, TempId(s, client[s].temps))
       IN  /\ client' = [client EXCEPT ![s] =
                            [canvasAddOperation(client[s], operation) EXCEPT !.temps = @ + 1]]
           /\ Handle(OnDrawingEvent(Server, s, type, operation.data))

SyncUndo(s) ==
    SyncReady(s) /\ Handle(OnUndoRequest(Server, s)) /\ UNCHANGED client

SyncRedo(s) ==
    SyncReady(s) /\ Handle(OnRedoRequest(Server, s)) /\ UNCHANGED client

SyncClearCanvas(s) ==
    SyncReady(s) /\ Handle(OnClearCanvas(Server, s)) /\ UNCHANGED client

SyncAdminUndo(s) ==
    SyncReady(s) /\ Handle(OnAdminUndo(Server, s)) /\ UNCHANGED client

SyncAdminRedo(s) ==
    SyncReady(s) /\ Handle(OnAdminRedo(Server, s)) /\ UNCHANGED client

SyncAdminClearAll(s) ==
    SyncReady(s) /\ Handle(OnAdminClearAll(Server, s)) /\ UNCHANGED client

SyncNext ==
    \/ ClientConnection
    \/ \E s \in LogSockets : ClientJoinRoom(s)
    \/ \E s \in LogSockets : SyncStroke(s)
    \/ \E s \in LogSockets, isComplete \in BOOLEAN : SyncSegment(s, isComplete)
    \/ \E s \in LogSockets : SyncShape(s, "shape")
    \/ \E s \in LogSockets : SyncUndo(s)
    \/ \E s \in LogSockets : SyncRedo(s)
    \/ \E s \in LogSockets : SyncClearCanvas(s)
    \/ \E s \in LogSockets : SyncAdminUndo(s)
    \/ \E s \in LogSockets : SyncAdminRedo(s)
    \/ \E s \in LogSockets : SyncAdminClearAll(s)
    \/ \E s \in LogSockets : Deliver(s)

SpecSync == Init /\ [][SyncNext]_vars


(***************************************************************************)
(* Properties of the operation log                                         *)
(***************************************************************************)
\* connections whose closure holds a user
JoinedSockets == {s \in Sockets : sock[s].connected /\ Joined(Server, s)}

\* the log of the room connection s is in
LogOf(s) == rooms[sock[s].currentRoom].operations

\* the handler left everything as it was but the undone flag of entry i of s's room
OnlyFlagChanged(res, s, i, flag) ==
    res.sv = [Server EXCEPT !.rooms[sock[s].currentRoom].operations[i].undone = flag]

\* the handler broadcast exactly one event ev, naming operation id
BroadcastOne(res, ev, id) ==
    /\ Len(res.sent) = 1
    /\ res.sent[1].ev = ev
    /\ res.sent[1].body.operationId = id

\* C1: an undo-request by a user flags exactly the latest entry of the log that the
\* user authored and that is not undone, and announces that entry; every other
\* entry and the rest of the server state are unchanged; when the user has no such
\* entry nothing changes and nothing is announced.
C1_UndoFlagsLatestOwn ==
    \A s \in JoinedSockets :
        LET ops == LogOf(s)
            res == OnUndoRequest(Server, s)
            own == {i \in 1..Len(ops) : ops[i].userId = sock[s].currentUser /\ ~ops[i].undone}
        IN  IF own = {} THEN res.sv = Server /\ res.sent = <<>>
            ELSE \E i \in own :
                    /\ \A j \in own : j <= i
                    /\ OnlyFlagChanged(res, s, i, TRUE)
                    /\ BroadcastOne(res, "undo-update", ops[i].id)

\* an undone entry of a user who has an earlier entry still active, below a later
\* active entry of another user
C1_Witness ==
    \E s \in JoinedSockets :
        \E h, i, j \in 1..Len(LogOf(s)) :
            /\ h < i /\ i < j
            /\ LogOf(s)[h].userId = LogOf(s)[i].userId
            /\ LogOf(s)[j].userId # LogOf(s)[i].userId
            /\ ~LogOf(s)[h].undone /\ LogOf(s)[i].undone /\ ~LogOf(s)[j].undone

RECURSIVE Undos(_, _, _)
\* the server state after k undo-requests in a row from connection s
Undos(sv, s, k) == IF k = 0 THEN sv ELSE Undos(OnUndoRequest(sv, s).sv, s, k - 1)

RECURSIVE Redos(_, _, _)
\* the server state after k redo-requests in a row from connection s
Redos(sv, s, k) == IF k = 0 THEN sv ELSE Redos(OnRedoRequest(sv, s).sv, s, k - 1)

AdminSockets == {s \in JoinedSockets : ~NotAdmin(Server, s)}

AdminsOf(r) == {u \in SeqRange(rooms[r].users) : users[u].isAdmin}

\* C5: in every reachable state, whatever join-room, disconnect, admin-kick-user
\* and admin-transfer events were handled, a room has at most one user with
\* isAdmin = true; a room with a user has exactly one, the user adminId names.
C5_OneAdminPerRoom ==
    \A r \in RoomIds :
        /\ Cardinality(AdminsOf(r)) <= 1
        /\ Len(rooms[r].users) > 0 => AdminsOf(r) = {rooms[r].adminId}

\* room r1 was the only room ever used, its first admin (user 1) has left it and
\* two users remain: the admin role was handed over
C5_Witness ==
    /\ ~rooms["r2"].exists
    /\ Len(rooms["r1"].users) = 2
    /\ 1 \notin SeqRange(rooms["r1"].users)

\* the six admin-only events, as handled for connection s
AdminOnlyResults(s) ==
    {OnAdminUndo(Server, s), OnAdminRedo(Server, s), OnAdminClearAll(Server, s)}
    \cup {OnAdminKickUser(Server, s, u) : u \in UserIds}
    \cup {OnSetTheme(Server, s, t) : t \in Themes}
    \cup {OnAdminTransfer(Server, s, u) : u \in UserIds}

\* C6: when a user whose isAdmin is false sends admin-undo, admin-redo,
\* admin-clear-all, admin-kick-user, set-theme or admin-transfer, the server emits
\* one error event, to that connection alone, and leaves its whole state (logs,
\* rosters, admin pointers) as it was.
C6_NonAdminRejected ==
    \A s \in JoinedSockets : ~users[sock[s].currentUser].isAdmin =>
        \A res \in AdminOnlyResults(s) :
            /\ res.sv = Server
            /\ Len(res.sent) = 1
            /\ res.sent[1].ev = "error"
            /\ res.sent[1].to = {s}

\* a user who is not admin, in a room with an active entry and with another
\* connection to broadcast to
C6_Witness ==
    \E s \in JoinedSockets :
        /\ ~users[sock[s].currentUser].isAdmin
        /\ \E i \in 1..Len(LogOf(s)) : ~LogOf(s)[i].undone
        /\ RoomSockets(sock, sock[s].currentRoom) \ {s} # {}


(***************************************************************************)
(* Properties of the drawing events                                        *)
(***************************************************************************)
\* the log of s's room as a handler result leaves it
LogAfter(res, s) == res.sv.rooms[sock[s].currentRoom].operations

\* the operations of the operation-history a connection j would be sent on
\* joining room roomId in server state sv
HistoryFor(sv, j, roomId) == OnJoinRoom(sv, j, roomId, 1).sent[2].body.operations

\* connections that have not joined a room yet
Joiners == {j \in Sockets : sock[j].connected /\ ~Joined(Server, j)}

\* the result appended exactly one entry, the sender's operation of this type and
\* payload under the id the server issued, and kept every entry before it
AppendedOne(res, s, type, data) ==
    LET log == LogOf(s)
        after == LogAfter(res, s)
    IN  /\ Len(after) = Len(log) + 1
        /\ SubSeq(after, 1, Len(log)) = log
        /\ after[Len(after)].id = nextOp
        /\ after[Len(after)].type = type
        /\ after[Len(after)].data = data
        /\ after[Len(after)].userId = sock[s].currentUser
        /\ ~after[Len(after)].undone

\* C7: a drawing-event of type draw, shape, text or image appends exactly one entry
\* to the log of the sender's room, whatever its payload; a draw-incremental event
\* appends one entry when its payload has isComplete set and leaves the log as it
\* was otherwise; a draw-incremental segment whose payload is not marked complete is
\* broadcast once to the room (the sender included) and is in no operation history
\* a joiner is sent afterwards; no log and no history holds a draw-incremental entry
\* that is not marked complete.
C7_CommitRule ==
    /\ \A s \in JoinedSockets :
        \A type \in DurableTypes \cup {"draw-incremental"} :
            \A data \in EditData(type, nextOp - 1) :
                LET res == OnDrawingEvent(Server, s, type, data)
                    complete == data.present /\ data.isComplete
                    currentRoom == sock[s].currentRoom
                IN  /\ type \in DurableTypes => AppendedOne(res, s, type, data)
                    /\ (type = "draw-incremental" /\ complete) =>
                            AppendedOne(res, s, type, data)
                    /\ (type = "draw-incremental" /\ ~complete) =>
                            LogAfter(res, s) = LogOf(s)
                    /\ (type = "draw-incremental" /\ data.present /\ ~complete) =>
                        /\ Len(res.sent) = 1
                        /\ res.sent[1].ev = "drawing-update"
                        /\ res.sent[1].to = RoomSockets(sock, currentRoom)
                        /\ s \in res.sent[1].to
                        /\ res.sent[1].body.id = nextOp
                        /\ res.sent[1].body.type = type
                        /\ \A j \in Joiners :
                            LET history == HistoryFor(res.sv, j, currentRoom)
                            IN  \A i \in 1..Len(history) : history[i].id # nextOp
    /\ \A j \in Joiners : \A roomId \in RoomIds :
        LET history == HistoryFor(Server, j, roomId)
        IN  /\ history = rooms[roomId].operations
            /\ \A i \in 1..Len(history) :
                history[i].type = "draw-incremental" =>
                    history[i].data.present /\ history[i].data.isComplete

\* the log holds one entry, a completed draw-incremental stroke that was the second
\* event the server handled, and a connection is about to join and get the history
C7_Witness ==
    /\ Joiners # {}
    /\ Len(rooms["r1"].operations) = 1
    /\ rooms["r1"].operations[1].type = "draw-incremental"
    /\ rooms["r1"].operations[1].id = 2
    /\ rooms["r1"].currentIndex = 0

\* C8: for every shape-preview, text-preview and move-preview event, whatever its
\* payload, the log of the sender's room is the same before and after the server
\* handles it, and no client adds the broadcast operation to its operation list:
\* the list a client holds after loading the room's history is unchanged by it.
C8_PreviewsNeverCommitted ==
    \A s \in JoinedSockets : \A type \in PreviewTypes :
        \A data \in EditData(type, nextOp - 1) :
            LET res == OnDrawingEvent(Server, s, type, data)
                cm == loadOperationHistory(NewCanvas, getOperationHistory(rooms[sock[s].currentRoom]))
            IN  /\ LogAfter(res, s) = LogOf(s)
                /\ \A k \in 1..Len(res.sent) :
                    res.sent[k].ev = "drawing-update" =>
                        canvasAddOperation(cm, res.sent[k].body) = cm

\* C9: a move or resize event never changes the length, the order, the ids or the
\* undone flags of the log; when an entry with the named operationId exists, move
\* writes only its x and y and resize only its width and height; when none exists
\* the log is unchanged and the event is broadcast as any other; the history a
\* joiner is sent afterwards holds the target with the values written and no entry
\* of type move or resize.
C9_MoveResizeInPlace ==
    /\ \A s \in JoinedSockets : \A type \in {"move", "resize"} :
        \A data \in EditData(type, nextOp - 1) :
            LET res == OnDrawingEvent(Server, s, type, data)
                log == LogOf(s)
                after == LogAfter(res, s)
                i == FindOp(log, data.operationId)
            IN  /\ Len(after) = Len(log)
                /\ \A k \in 1..Len(log) :
                    /\ after[k].id = log[k].id
                    /\ after[k].undone = log[k].undone
                    /\ after[k].type = log[k].type
                    /\ after[k].userId = log[k].userId
                    /\ k # i => after[k] = log[k]
                /\ (data.present /\ i # 0 /\ log[i].data.present) =>
                    after[i].data =
                        IF type = "move"
                        THEN [log[i].data EXCEPT !.x = data.x, !.y = data.y]
                        ELSE [log[i].data EXCEPT !.width = data.width,
                                                 !.height = data.height]
                /\ (data.present /\ i = 0) =>
                    /\ after = log
                    /\ Len(res.sent) = 1
                    /\ res.sent[1].ev = "drawing-update"
                /\ \A j \in Joiners :
                    HistoryFor(res.sv, j, sock[s].currentRoom) = after
    /\ \A roomId \in RoomIds : \A k \in 1..Len(rooms[roomId].operations) :
        rooms[roomId].operations[k].type \notin {"move", "resize"}


(***************************************************************************)
(* Properties of the client's operation list                               *)
(***************************************************************************)
\* the next event of connection s is a drawing-update
NextIsUpdate(s) == inbox[s] # <<>> /\ Head(inbox[s]).ev = "drawing-update"

\* the next event of connection s is the drawing-update of an operation whose
\* data.tempId is the id of an entry of the client's list: a pending placeholder
Confirms(s) ==
    /\ NextIsUpdate(s)
    /\ Head(inbox[s]).body.data.tempId # Null
    /\ \E i \in 1..Len(client[s].operations) :
        client[s].operations[i].id = Head(inbox[s]).body.data.tempId

\* C10: when the client receives a drawing-update whose data.tempId is the id of a
\* placeholder in its list, the callback puts the server operation in the
\* placeholder's place: the list keeps its length and every other entry, the entry
\* now has the server's id, and no entry has the tempId as its id; running the
\* callback again for the same operation leaves the list as it is.  Every
\* drawing-update handled twice leaves the list as handling it once does.
C10_Reconciliation ==
    \A s \in Sockets :
        /\ Confirms(s) =>
            LET operation == Head(inbox[s]).body
                before == client[s].operations
                i == FindOp(before, operation.data.tempId)
                once == canvasAddOperation(client[s], operation)
            IN  /\ Len(once.operations) = Len(before)
                /\ once.operations = [before EXCEPT ![i] = operation]
                /\ once.operations[i].id = operation.id
                /\ operation.id \in OpIds
                /\ \A k \in 1..Len(once.operations) :
                    once.operations[k].id # operation.data.tempId
                /\ canvasAddOperation(once, operation) = once
        /\ NextIsUpdate(s) =>
            LET operation == Head(inbox[s]).body
                once == canvasAddOperation(client[s], operation)
            IN  canvasAddOperation(once, operation) = once

\* a client is about to handle the confirmation of its placeholder, which stands
\* in its list before an operation of another user that the server stored
C10_Witness ==
    \E s \in Sockets :
        LET list == client[s].operations
        IN  /\ Confirms(s)
            /\ Len(list) = 2
            /\ list[1].id = Head(inbox[s]).body.data.tempId
            /\ list[1].id = TempId(s, 0)
            /\ list[2].id \in OpIds
            /\ list[2].userId # client[s].currentUserId


(***************************************************************************)
(* Properties of the broadcast                                             *)
(***************************************************************************)
\* the sessions of a room: the connections whose current user joined it
MemberSockets(roomId) ==
    {c \in Sockets : sock[c].connected /\ sock[c].currentUser # Null
                                       /\ sock[c].currentRoom = roomId}

\* the ids of the entries of every room's log
LoggedIds == UNION {{rooms[r].operations[i].id : i \in 1..Len(rooms[r].operations)} :
                        r \in RoomIds}

\* C11: for every drawing-event of a joined user that the handler serves without
\* throwing, whatever its type and payload, the server emits exactly one event, a
\* drawing-update whose operation carries the id the server issued for it (an id no
\* log entry holds and that is not the client's tempId), addressed to every session
\* of the sender's room, the sender's own session included.
C11_OneUpdateToEveryMember ==
    \A s \in JoinedSockets : \A type \in Types :
        \A data \in EditData(type, nextOp - 1) :
            LET res == OnDrawingEvent(Server, s, type, data)
                currentRoom == sock[s].currentRoom
            IN  ~DrawingEventThrows(getDrawingState(rooms, currentRoom), type, data) =>
                    /\ Len(res.sent) = 1
                    /\ res.sent[1].ev = "drawing-update"
                    /\ res.sent[1].body.id = nextOp
                    /\ res.sent[1].body.id \notin LoggedIds
                    /\ res.sent[1].body.type = type
                    /\ res.sent[1].body.userId = sock[s].currentUser
                    /\ MemberSockets(currentRoom) \subseteq res.sent[1].to
                    /\ s \in res.sent[1].to

\* a room with two sessions whose log holds an entry: a drawing-event was served
\* there and its update went to both
C11_Witness ==
    \E r \in RoomIds :
        /\ Cardinality(MemberSockets(r)) >= 2
        /\ Len(rooms[r].operations) >= 1


\* the events of OrderEvents waiting in a queue, in order
Keys(box) ==
    LET waiting == SelectSeq(box, LAMBDA m : m.ev \in OrderEvents)
    IN  [i \in 1..Len(waiting) |-> EventKey(waiting[i].ev, waiting[i].body)]

\* the events the server addressed to connection c, in the order it emitted them
AddressedTo(c) ==
    LET mine == SelectSeq(emitted, LAMBDA e : c \in e.to)
    IN  [i \in 1..Len(mine) |-> mine[i].key]

\* the ids of the operations the server announced by drawing-update, in order
AnnouncedIds ==
    LET updates == SelectSeq(emitted, LAMBDA e : e.key.ev = "drawing-update")
    IN  [i \in 1..Len(updates) |-> updates[i].key.id]

\* C12: the server announces the operations of a room in the order it committed
\* them, and what a client has received so far, followed by what still waits for
\* it, is the sequence of the drawing-update, undo-update and redo-update events
\* the server addressed to it, in the server's order: a client gets any two of them
\* in the order the server handled them, so any two clients get them in the same
\* relative order.
C12_ServerOrder ==
    /\ AnnouncedIds = [i \in 1..Len(rooms["r1"].operations) |-> rooms["r1"].operations[i].id]
    /\ \A c \in Sockets : received[c] \o Keys(inbox[c]) = AddressedTo(c)

\* both clients have received the updates of two commits by different users and of
\* an undo and a redo
C12_Witness ==
    /\ Len(rooms["r1"].operations) = 2
    /\ rooms["r1"].operations[1].userId # rooms["r1"].operations[2].userId
    /\ \A c \in LogSockets :
        /\ Len(received[c]) = MaxEmitted
        /\ \E i \in 1..Len(received[c]) : received[c][i].ev = "undo-update"
        /\ \E i \in 1..Len(received[c]) : received[c][i].ev = "redo-update"


(***************************************************************************)
(* Properties of the history a joiner is sent                              *)
(***************************************************************************)
\* the operations of the operation-history a new connection is sent when it joins
\* room roomId now
NewcomerHistory(roomId) == HistoryFor(OnConnection(Server).sv, nextSock, roomId)

\* the ids of the operations the server committed, in the order it announced them
CommittedIds ==
    LET commits == SelectSeq(emitted, LAMBDA e : e.key.commit)
    IN  [i \in 1..Len(commits) |-> commits[i].key.id]

\* where the server announced the commit of operation id
CommitPos(id) == MinIndex({k \in 1..Len(emitted) : emitted[k].key.commit /\ emitted[k].key.id = id})

\* the flag changes of operation id, of user author, that the server announced after
\* the commit: an undo or a redo of the operation, a clear-canvas of its author
FlagChanges(id, author) ==
    {k \in 1..Len(emitted) :
        /\ k > CommitPos(id)
        /\ \/ emitted[k].key.ev \in {"undo-update", "redo-update"} /\ emitted[k].key.id = id
           \/ emitted[k].key.ev = "canvas-cleared" /\ emitted[k].key.id = author}

\* the operation was never flagged, or its last flag change was a redo
NeverFlaggedOrRedone(id, author) ==
    \/ FlagChanges(id, author) = {}
    \/ emitted[MaxIndex(FlagChanges(id, author))].key.ev = "redo-update"

\* C13: after any sequence of commits, undo, redo, clear-canvas, move and resize
\* events without admin-clear-all, the history a joiner is sent lists every
\* operation the server committed exactly once, in commit order, and an entry has
\* undone = false exactly when the operation was never flagged or its last flag
\* change was a redo.
C13_HistoryIsCommitOrder ==
    LET history == NewcomerHistory("r1")
    IN  /\ [i \in 1..Len(history) |-> history[i].id] = CommittedIds
        /\ \A i, j \in 1..Len(history) : i < j => history[i].id < history[j].id
        /\ \A i \in 1..Len(history) :
            ~history[i].undone <=> NeverFlaggedOrRedone(history[i].id, history[i].userId)

\* a committed operation that its author cleared and redid and that was moved
\* since: the log holds it once, active, at its new position
C13_Witness ==
    /\ Len(rooms["r1"].operations) = 1
    /\ rooms["r1"].operations[1].data.x = 2
    /\ ~rooms["r1"].operations[1].undone
    /\ \E k \in 1..Len(emitted) : emitted[k].key.ev = "canvas-cleared"
    /\ \E k \in 1..Len(emitted) : emitted[k].key.ev = "redo-update"

\* the log after is the log before but for undone flags: same length, same order,
\* every entry with its id, type, author, colour, timestamp and payload
SameButFlags(after, log) ==
    /\ Len(after) = Len(log)
    /\ \A i \in 1..Len(log) : [after[i] EXCEPT !.undone = log[i].undone] = log[i]

\* the results of the five operations that flip flags, requested by connection s
FlagResults(s) ==
    {OnUndoRequest(Server, s), OnRedoRequest(Server, s), OnAdminUndo(Server, s),
     OnAdminRedo(Server, s), OnClearCanvas(Server, s)}

\* the ids of the users in the roster of the room connection s is in
RosterOf(s) == SeqRange(rooms[sock[s].currentRoom].users)

\* C14: undo, redo, admin-undo, admin-redo and clear-canvas change nothing on the
\* server but undone flags of the requester's room: the log keeps its length and
\* order and every entry its id, type, author id, author colour, timestamp and
\* payload; and when a user leaves a room that keeps other users, the log is left
\* as it was, the leaver's entries with the colour recorded at commit included.
C14_OnlyFlagsChange ==
    \A s \in JoinedSockets :
        /\ \A res \in FlagResults(s) :
            /\ SameButFlags(LogAfter(res, s), LogOf(s))
            /\ res.sv = [Server EXCEPT !.rooms[sock[s].currentRoom].operations = LogAfter(res, s)]
        /\ LET left == OnDisconnect(Server, s)
           IN  Len(rooms[sock[s].currentRoom].users) > 1 => LogAfter(left, s) = LogOf(s)

\* C14 happens: the log holds an undone entry and an active entry of a user who has
\* left the room, and an active entry of the requester
C14_Witness ==
    \E s \in AdminSockets :
        \E h, i, j \in 1..Len(LogOf(s)) :
            /\ h # i
            /\ LogOf(s)[h].userId = LogOf(s)[i].userId
            /\ LogOf(s)[h].userId \notin RosterOf(s)
            /\ LogOf(s)[h].undone /\ ~LogOf(s)[i].undone
            /\ LogOf(s)[h].userColor # Null
            /\ LogOf(s)[j].userId = sock[s].currentUser /\ ~LogOf(s)[j].undone

\* the users that stay in the roster when the user of connection s leaves its room
Remaining(s) == RosterOf(s) \ {sock[s].currentUser}

\* user ids are issued in the order of the join-room events, so the earliest joiner
\* of a set of users is the one with the least id
EarliestJoiner(us) == CHOOSE u \in us : \A v \in us : u <= v

\* C15: when the admin disconnects from a room that keeps users, exactly one of the
\* remaining users becomes admin, the earliest joiner among them; admin-promoted is
\* sent to that user's connection, and no other remaining user's isAdmin changes.
C15_EarliestJoinerSucceeds ==
    \A s \in AdminSockets :
        LET r == sock[s].currentRoom
            res == OnDisconnect(Server, s)
            heir == EarliestJoiner(Remaining(s))
            promotions == {k \in 1..Len(res.sent) : res.sent[k].ev = "admin-promoted"}
        IN  Remaining(s) # {} =>
                /\ {v \in Remaining(s) : res.sv.users[v].isAdmin /\ ~users[v].isAdmin} = {heir}
                /\ res.sv.rooms[r].adminId = heir
                /\ \A v \in Remaining(s) \ {heir} : res.sv.users[v].isAdmin = users[v].isAdmin
                /\ Cardinality(promotions) = 1
                /\ \A k \in promotions : res.sent[k].to = {users[heir].socketId}

\* X joined, Y joined after X, X committed A, Y committed B and X disconnected:
\* connection y holds Y, the only user left in the roster, and the log is A, B,
\* both active
SuccessorAlone(y) ==
    LET ops == LogOf(y)
        Y == sock[y].currentUser
    IN  /\ RosterOf(y) = {Y}
        /\ Len(ops) = 2
        /\ ops[1].userId < Y /\ ops[1].userId \notin RosterOf(y)
        /\ ops[2].userId = Y
        /\ ~ops[1].undone /\ ~ops[2].undone

\* C16: after X joined, Y joined, X committed A, Y committed B and X disconnected,
\* Y's admin-undo is accepted (no error event is sent), it flags B as undone and
\* leaves A active and everything else as it was, and one undo-update naming B is
\* sent to the room, Y's session included.
C16_SuccessorUndoesLatest ==
    \A y \in JoinedSockets :
        LET ops == LogOf(y)
            res == OnAdminUndo(Server, y)
        IN  SuccessorAlone(y) =>
                /\ \A k \in 1..Len(res.sent) : res.sent[k].ev # "error"
                /\ OnlyFlagChanged(res, y, 2, TRUE)
                /\ LogAfter(res, y)[2].undone /\ ~LogAfter(res, y)[1].undone
                /\ BroadcastOne(res, "undo-update", ops[2].id)
                /\ MemberSockets(sock[y].currentRoom) \subseteq res.sent[1].to
                /\ y \in res.sent[1].to

\* C16 happens: the scenario's state, where X was the room's first admin (user 1)
C16_Witness ==
    \E y \in JoinedSockets :
        /\ SuccessorAlone(y)
        /\ LogOf(y)[1].userId = 1 /\ sock[y].currentUser = 2
        /\ LogOf(y)[1].id = 1 /\ LogOf(y)[2].id = 2

\* C17: an admin-transfer sent by the room's admin and naming another user of the
\* roster makes the named user admin (isAdmin true, adminId naming it) and the
\* former admin an ordinary user, and the updated user list is sent to every member
\* of the room; sent by a user who is not admin it changes nothing.
C17_TransferHandsOver ==
    \A s \in JoinedSockets :
        \A target \in Remaining(s) :
            LET res == OnAdminTransfer(Server, s, target)
                r == sock[s].currentRoom
                lists == {k \in 1..Len(res.sent) : res.sent[k].ev = "user-list"}
            IN  IF s \in AdminSockets
                THEN /\ res.sv.users[target].isAdmin
                     /\ res.sv.rooms[r].adminId = target
                     /\ ~res.sv.users[sock[s].currentUser].isAdmin
                     /\ \E k \in lists :
                         /\ MemberSockets(r) \subseteq res.sent[k].to
                         /\ res.sent[k].body = getRoomUsers(res.sv.rooms, res.sv.users, r)
                ELSE res.sv = Server

\* C18: once the disconnect of the last user of a room has been handled, the room
\* registry holds no entry for the room's id.
C18_EmptyRoomDiscarded ==
    \A s \in JoinedSockets :
        RosterOf(s) = {sock[s].currentUser} =>
            ~OnDisconnect(Server, s).sv.rooms[sock[s].currentRoom].exists

\* every user still in the roster of room r is the user of a closed connection (a
\* user that was removed went with the disconnect of its connection)
AllDisconnected(r) ==
    \A u \in SeqRange(rooms[r].users) : ~sock[users[u].socketId].connected

\* C19: a user who joins a room id when every previous user of that room has
\* disconnected is sent an empty operation-history and is the room's admin.
C19_FreshStartAfterAllLeft ==
    \A r \in RoomIds : \A j \in Sockets :
        (sock[j].connected /\ nextUser \in UserIds /\ AllDisconnected(r)) =>
            \A color \in assignColor(getRoom(rooms, r)[r], users) :
                LET res == OnJoinRoom(Server, j, r, color)
                IN  /\ res.sent[2].ev = "operation-history"
                    /\ res.sent[2].body.operations = <<>>
                    /\ res.sent[1].body.isAdmin
                    /\ res.sv.users[nextUser].isAdmin
                    /\ res.sv.rooms[r].adminId = nextUser

\* C20: a clear-canvas request by user u leaves every log entry authored by u with
\* undone = true and every entry of another author with the flag it had; the log
\* keeps its length and the order of its entries.
C20_ClearMineFlagsOwn ==
    \A s \in JoinedSockets :
        LET log == LogOf(s)
            after == LogAfter(OnClearCanvas(Server, s), s)
            u == sock[s].currentUser
        IN  /\ Len(after) = Len(log)
            /\ \A i \in 1..Len(log) :
                /\ after[i].id = log[i].id
                /\ after[i].userId = log[i].userId
                /\ log[i].userId = u => after[i].undone
                /\ log[i].userId # u => after[i].undone = log[i].undone

\* C20 happens: the requester has an active and an undone entry, and another user
\* an active entry and an undone one
C20_Witness ==
    \E s \in JoinedSockets :
        \E g, h, i, j \in 1..Len(LogOf(s)) :
            /\ LogOf(s)[g].userId = sock[s].currentUser /\ ~LogOf(s)[g].undone
            /\ LogOf(s)[h].userId = sock[s].currentUser /\ LogOf(s)[h].undone
            /\ LogOf(s)[i].userId # sock[s].currentUser /\ ~LogOf(s)[i].undone
            /\ LogOf(s)[j].userId # sock[s].currentUser /\ LogOf(s)[j].undone

\* C21: after a clear-canvas request by user u, who authored n entries of the log,
\* k redo-requests in a row by u (k = 0..n) leave u's k earliest entries active and
\* u's other entries undone: each request restores one entry, in log order, and
\* after n requests all n are active; every entry is still in the log, in its
\* place, and nothing else on the server has changed.
C21_ClearMineReversible ==
    \A s \in JoinedSockets :
        LET ops == LogOf(s)
            r == sock[s].currentRoom
            mine == {i \in 1..Len(ops) : ops[i].userId = sock[s].currentUser}
            cleared == OnClearCanvas(Server, s).sv
        IN  \A k \in 0..Cardinality(mine) :
                Redos(cleared, s, k) =
                    [Server EXCEPT !.rooms[r].operations =
                        [i \in 1..Len(ops) |->
                            IF i \in mine
                            THEN [ops[i] EXCEPT !.undone =
                                     Cardinality({x \in mine : x <= i}) > k]
                            ELSE ops[i]]]

\* C21 happens: the requester authored three entries, one already undone, with an
\* entry of another user between them
C21_Witness ==
    \E s \in JoinedSockets :
        \E g, h, i, j \in 1..Len(LogOf(s)) :
            /\ g < h /\ h < i /\ j # g /\ j # i
            /\ \A x \in {g, j, i} : LogOf(s)[x].userId = sock[s].currentUser
            /\ LogOf(s)[h].userId # sock[s].currentUser
            /\ \E x \in {g, j, i} : LogOf(s)[x].undone
            /\ \E x \in {g, j, i} : ~LogOf(s)[x].undone

\* the results of the four undo / redo requests, sent by connection c in server
\* state sv
UndoRedoResults(sv, c) ==
    {OnUndoRequest(sv, c), OnRedoRequest(sv, c), OnAdminUndo(sv, c), OnAdminRedo(sv, c)}

\* C22: after an admin-clear-all by the room's admin the log is empty and its cursor
\* is -1; undo, redo, globalUndo and globalRedo then find no entry (null), and every
\* undo-request, redo-request, admin-undo and admin-redo of every member leaves the
\* server as the clear left it and announces no entry, so that no sequence of such
\* requests brings an entry back.
C22_ClearAllIrreversible ==
    \A s \in AdminSockets :
        LET r == sock[s].currentRoom
            res == OnAdminClearAll(Server, s)
            ds == getDrawingState(res.sv.rooms, r)
        IN  /\ ds.operations = <<>>
            /\ ds.currentIndex = -1
            /\ res.sv = [Server EXCEPT !.rooms[r].operations = <<>>,
                                       !.rooms[r].currentIndex = -1]
            /\ \A u \in UserIds :
                /\ undoIndex(ds.operations, u) = 0
                /\ redoIndex(ds.operations, u) = 0
            /\ globalUndoIndex(ds.operations) = 0
            /\ globalRedoIndex(ds.operations) = 0
            /\ \A c \in MemberSockets(r) : \A after \in UndoRedoResults(res.sv, c) :
                /\ after.sv = res.sv
                /\ \A k \in 1..Len(after.sent) :
                    after.sent[k].ev \notin {"undo-update", "redo-update"}

\* C22 happens: the admin's room has a second member and a log with an active and
\* an undone entry, of two authors
C22_Witness ==
    \E s \in AdminSockets :
        /\ Cardinality(MemberSockets(sock[s].currentRoom)) = 2
        /\ \E i, j \in 1..Len(LogOf(s)) :
            /\ LogOf(s)[i].userId # LogOf(s)[j].userId
            /\ LogOf(s)[i].undone /\ ~LogOf(s)[j].undone

\* the results of the join-room, drawing, undo / redo and disconnect events that
\* connection s can send in the current state, each with the room it is handled for
RoomEventResults(s) ==
    {[room |-> r, res |-> OnJoinRoom(Server, s, r, color)] :
        r \in {x \in RoomIds : nextUser \in UserIds},
        color \in 1..PaletteSize}
    \cup (IF ~Joined(Server, s) THEN {}
          ELSE {[room |-> sock[s].currentRoom, res |-> res] :
                    res \in {OnDrawingEvent(Server, s, "draw", Content),
                             OnUndoRequest(Server, s), OnRedoRequest(Server, s),
                             OnDisconnect(Server, s)}})

\* C23: an event handled for room R changes the log and roster of no other room,
\* and the drawing-update, undo-update, redo-update and user-list events it emits
\* are addressed only to connections whose current user is in R.
C23_RoomsIsolated ==
    \A s \in {c \in Sockets : sock[c].connected} : \A e \in RoomEventResults(s) :
        /\ \A r \in RoomIds \ {e.room} : e.res.sv.rooms[r] = rooms[r]
        /\ \A k \in 1..Len(e.res.sent) :
            e.res.sent[k].ev \in {"drawing-update", "undo-update", "redo-update", "user-list"}
                => \A c \in e.res.sent[k].to :
                       /\ e.res.sv.sock[c].currentRoom = e.room
                       /\ e.res.sv.sock[c].currentUser \in SeqRange(e.res.sv.rooms[e.room].users)

\* the client whose canvas is cm holds no shape preview, text preview, move preview
\* or active stroke of user u
HoldsNothingOf(cm, u) ==
    /\ u \notin cm.remoteShapePreviews
    /\ u \notin cm.remoteTextPreviews
    /\ \A p \in cm.remoteMovePreviews : p.by # u
    /\ u \notin cm.activeStrokes

\* the next event of connection s is a preview with phase end, or a user-left, of
\* another user than the client's own
EndsPreviews(s) ==
    /\ inbox[s] # <<>>
    /\ \/ Head(inbox[s]).ev = "user-left"
       \/ /\ Head(inbox[s]).ev = "drawing-update"
          /\ Head(inbox[s]).body.type \in PreviewTypes
          /\ Head(inbox[s]).body.data.phase = "end"
    /\ Head(inbox[s]).body.userId # client[s].currentUserId

\* C24: once a client has handled a shape-preview, text-preview or move-preview
\* with phase end of another user u, or the user-left of u, it holds no shape
\* preview, text preview, move preview or stroke in progress of u.
C24_PreviewsCleared ==
    \A s \in Sockets :
        EndsPreviews(s) =>
            HoldsNothingOf(onEvent(client[s], Head(inbox[s])), Head(inbox[s]).body.userId)

\* C25: a drawing-event without a payload (its data field is missing), of whatever
\* type, leaves the room's log as it was and is not broadcast, and the server goes
\* on serving: a stroke any member of the room sends next is appended and announced.
C25_MissingPayloadDropped ==
    \A s \in JoinedSockets : \A type \in Types :
        LET res == OnDrawingEvent(Server, s, type, NoData)
            r == sock[s].currentRoom
        IN  /\ res.sv.rooms[r].operations = rooms[r].operations
            /\ res.sent = <<>>
            /\ \A c \in MemberSockets(r) :
                LET next == OnDrawingEvent(res.sv, c, "draw", Content)
                IN  /\ Len(next.sv.rooms[r].operations) = Len(rooms[r].operations) + 1
                    /\ Len(next.sent) = 1

RECURSIVE UndoReach(_, _, _)
\* the server states that sequences of at most n undo requests (undo-request or
\* admin-undo) of connection s lead to from the states of S
UndoReach(S, s, n) ==
    IF n = 0 THEN S
    ELSE UndoReach(S \cup {OnUndoRequest(sv, s).sv : sv \in S}
                     \cup {OnAdminUndo(sv, s).sv : sv \in S}, s, n - 1)

\* C26: every participant, admin or not, can undo every operation of the room: for
\* each active entry of the log, whoever authored it, some sequence of the
\* participant's undo requests leaves it undone.  (A request flags at most one
\* entry, so sequences no longer than the log are all that matter.)
C26_AnyoneUndoesAnything ==
    \A s \in JoinedSockets :
        LET ops == LogOf(s)
            r == sock[s].currentRoom
        IN  \A i \in 1..Len(ops) :
                ~ops[i].undone =>
                    \E sv \in UndoReach({Server}, s, Len(ops)) :
                        sv.rooms[r].operations[i].undone

\* the sessions of room r in server state sv
MembersIn(sv, r) ==
    {c \in Sockets : sv.sock[c].connected /\ sv.sock[c].currentUser # Null
                                          /\ sv.sock[c].currentRoom = r}

\* the handler result res tells the sessions of room r that user T is gone: T's
\* connection is sent kicked, the sessions a user-left naming T and a user-list
\* without T
KickAnnounced(res, r, T) ==
    /\ \E k \in 1..Len(res.sent) :
        /\ res.sent[k].ev = "kicked"
        /\ res.sent[k].to = {users[T].socketId}
    /\ \E k \in 1..Len(res.sent) :
        /\ res.sent[k].ev = "user-left"
        /\ res.sent[k].body.userId = T
        /\ MembersIn(res.sv, r) \subseteq res.sent[k].to
    /\ \E k \in 1..Len(res.sent) :
        /\ res.sent[k].ev = "user-list"
        /\ MembersIn(res.sv, r) \subseteq res.sent[k].to
        /\ \A i \in 1..Len(res.sent[k].body) : res.sent[k].body[i].id # T

\* C27: after an admin-kick-user of the room's admin naming a user T of the roster,
\* T's connection has been sent kicked, T is not in the roster, and the members
\* that remain have been sent user-left for T and a user-list without T.
C27_KickRemoves ==
    \A s \in AdminSockets : \A T \in RosterOf(s) :
        LET res == OnAdminKickUser(Server, s, T)
            r == sock[s].currentRoom
        IN  /\ T \notin SeqRange(res.sv.rooms[r].users)
            /\ KickAnnounced(res, r, T)

\* the colours held by the users of room r1
HeldColors == {users[u].color : u \in SeqRange(rooms["r1"].users)}

\* C28: assignColor returns the first colour, in palette order, that no user of the
\* room holds; when every colour of the 10-colour palette is held it returns some
\* colour of the palette; and the user added with it leaves the other users, their
\* colours and their order in the room as they were.
C28_FirstFreeColor ==
    LET room == getRoom(rooms, "r1")["r1"]
        result == assignColor(room, users)
    IN  /\ Len(colorPalette) = 10
        /\ result # {}
        /\ \A c \in result :
            /\ \E i \in 1..Len(colorPalette) : colorPalette[i] = c
            /\ (\E i \in 1..Len(colorPalette) : colorPalette[i] \notin HeldColors) =>
                   /\ c \notin HeldColors
                   /\ Cardinality(result) = 1
                   /\ \A i, j \in 1..Len(colorPalette) :
                       (colorPalette[j] = c /\ i < j) => colorPalette[i] \in HeldColors
            /\ nextUser \in ColorUsers =>
                   LET added == addUser(rooms, users, "r1", nextUser, nextUser, c)
                   IN  /\ added.rooms["r1"].users = Append(room.users, nextUser)
                       /\ added.rooms["r1"].operations = room.operations
                       /\ \A u \in ColorUsers \ {nextUser} : added.users[u] = users[u]

\* C28 happens: ten users hold the ten colours, and not in the order they joined: a
\* colour that a user who left had held was given out again
C28_Witness ==
    /\ Cardinality(HeldColors) = 10
    /\ \E u, v \in SeqRange(rooms["r1"].users) : u < v /\ users[u].color > users[v].color
    /\ nextUser \in ColorUsers

\* the results of the move and resize events connection s can send
MoveResults(s) ==
    {OnDrawingEvent(Server, s, "move", MoveData(c, o, 2)) :
        c \in BOOLEAN, o \in Targets(nextOp - 1)}
    \cup {OnDrawingEvent(Server, s, "resize", ResizeData(c, o, 2)) :
              c \in BOOLEAN, o \in Targets(nextOp - 1)}

\* C29: in every reachable state each log's currentIndex is its length - 1; undo,
\* redo, admin-undo, admin-redo, clear-canvas, move and resize leave currentIndex as
\* it was; so the slice in addOperation drops no entry and getActiveOperations is
\* the log without its undone entries.
C29_CursorAtEnd ==
    /\ \A r \in RoomIds : rooms[r].currentIndex = Len(rooms[r].operations) - 1
    /\ \A s \in JoinedSockets :
        LET r == sock[s].currentRoom
            ds == getDrawingState(rooms, r)
        IN  /\ \A res \in FlagResults(s) \cup MoveResults(s) :
                res.sv.rooms[r].currentIndex = ds.currentIndex
            /\ SliceTo(ds.operations, ds.currentIndex + 1) = ds.operations
            /\ getActiveOperations(ds) = SelectSeq(ds.operations, LAMBDA op : ~op.undone)

Ids(ops) == {ops[i].id : i \in 1..Len(ops)}

\* the canvas of a client once it has handled, in order, the events that wait for it
RECURSIVE Drain(_, _)
Drain(cm, box) ==
    IF box = <<>> THEN cm ELSE Drain(onEvent(cm, Head(box)), Tail(box))

\* the events of `sent` that reach connection c, in order
Addressed(sent, c) ==
    SelectSeq(sent, LAMBDA m : c \in m.to /\ m.ev \in CanvasEvents)

\* every event but join-room that connection s can send in the current state, as
\* the server handles it
EventResults(s) ==
    {OnDrawingEvent(Server, s, type, data) :
        type \in Types, data \in {NoData, Content, Stroke}}
    \cup {OnCursorMove(Server, s), OnUndoRequest(Server, s), OnRedoRequest(Server, s),
          OnClearCanvas(Server, s)}
    \cup AdminOnlyResults(s)

\* C31: no event sent by a user who is not admin removes an entry from the server
\* log or from the operation list of another client; a drawing-event of type clear
\* sent by such a user leaves the operation list of every client as it was.
C31_NonAdminRemovesNothing ==
    \A s \in JoinedSockets : ~users[sock[s].currentUser].isAdmin =>
        \A res \in EventResults(s) :
            /\ \A r \in RoomIds :
                Ids(rooms[r].operations) \subseteq Ids(res.sv.rooms[r].operations)
            /\ \A c \in Sockets \ {s} :
                LET cm == Drain(client[c], inbox[c])
                IN  Ids(cm.operations)
                        \subseteq Ids(Drain(cm, Addressed(res.sent, c)).operations)

\* every event sent so far has been handled by the client it was sent to
Delivered == \A c \in Sockets : inbox[c] = <<>>

\* the ids of an operation list, each with the undone flag of its entry
Flags(ops) == {<<ops[i].id, ops[i].undone>> : i \in 1..Len(ops)}

\* C32: once every message sent so far has been delivered, each client of a room
\* holds exactly the operation ids of the server's log of that room, each with the
\* undone flag the server holds, whatever edits (complete draw-incremental
\* segments included), undo, redo, clear-mine, admin undo / redo, admin-clear-all
\* and joins came before.
C32_ClientsAgreeWithServer ==
    Delivered =>
        \A s \in JoinedSockets : Flags(client[s].operations) = Flags(LogOf(s))

\* the entries that two operation lists both hold come in the same order in both
SameOrder(a, b) ==
    \A i, j \in 1..Len(a) :
        LET p == FindOp(b, a[i].id)
            q == FindOp(b, a[j].id)
        IN  (i < j /\ p # 0 /\ q # 0) => p < q

\* C33: once every message sent so far has been delivered, the operation list of
\* each client holds its operations in the order of the server's log of its room,
\* also on a client that added a placeholder under a tempId while an operation of
\* another user reached the server first.
C33_ClientOrderIsServerOrder ==
    Delivered =>
        \A s \in JoinedSockets : SameOrder(client[s].operations, LogOf(s))

(***************************************************************************)
(* Properties of the rosters                                               *)
(***************************************************************************)
\* the connections whose disconnect has been handled
Disconnected == {s \in Sockets : s < nextSock /\ ~sock[s].connected}

\* C34: after the disconnect of a connection has been handled, no room's roster
\* holds a user that the connection created with a join-room, also when it sent
\* join-room more than once, to the same room or to different rooms.
C34_DisconnectRemovesAll ==
    \A s \in Disconnected : \A r \in RoomIds :
        \A u \in SeqRange(rooms[r].users) : users[u].socketId # s

\* no two users in the roster of room r hold the same colour
DistinctColors(r) ==
    \A u, v \in SeqRange(rooms[r].users) : u # v => users[u].color # users[v].color

\* the roster of room r holds no more users than the palette has colours
WithinPalette(r) == Len(rooms[r].users) <= PaletteSize

\* C35 as stated: in every reachable state in which a room holds at most 10 users,
\* no two users present in the room have the same colour, after any sequence of
\* joins and leaves.
C35_DistinctUpToTen ==
    \A r \in RoomIds : WithinPalette(r) => DistinctColors(r)

\* C35 as amended: in a room that has never held more than 10 users at once, no two
\* users present have the same colour, after any sequence of joins and leaves: a
\* join or leave that finds at most 10 users with distinct colours and leaves at
\* most 10 leaves their colours distinct (and a new room holds nobody).
C35_DistinctWhileWithinPalette ==
    [][\A r \in RoomIds :
          (WithinPalette(r) /\ DistinctColors(r) /\ WithinPalette(r)')
              => DistinctColors(r)']_vars

\* C35 happens: twelve users joined, two left, and the ten present hold the ten
\* colours of the palette
C35_Witness ==
    /\ Len(rooms["r1"].users) = PaletteSize
    /\ DistinctColors("r1")
    /\ nextUser - 1 > PaletteSize

====================================================================================
